---------------------------- MODULE Spec2Model ----------------------------
(***************************************************************************)
(* A model of the filterable-table component: the AdvancedFilter editor    *)
(* (filter tree, value store, debounced apply scheduler), the              *)
(* FilterableTable controller (active predicate, sort state, derived       *)
(* view) and the sort comparator.                                          *)
(*                                                                         *)
(* React specifics the model keeps:                                        *)
(*  - an event handler is the closure of the latest committed render, so   *)
(*    inside a handler `filterRoot` and `isAutoApply` are the values of    *)
(*    that render; a state setter called by the handler takes effect in    *)
(*    the next render, after the handler has returned;                     *)
(*  - every state change is followed, inside the same step, by the         *)
(*    re-render it causes (function bodies of the components run again);   *)
(*  - setTimeout callbacks are kept in a timer table until they fire or    *)
(*    are cleared; a callback keeps the closure it was created with.       *)
(***************************************************************************)
EXTENDS Integers, Sequences, FiniteSets, TLC

(***************************************************************************)
(* Bounds of the model and program constants.                              *)
(***************************************************************************)
\* ids generateId may hand out in one run (root group and first condition use 2 per mount)
MaxIds == 4
\* AdvancedFilter instances mounted in one run
MaxInstances == 2
\* user gestures (edits, toggles, commits, resets, mounts, sort clicks) in one run
MaxGestures == 3
\* rows of a table in the comparator's runs
MaxRows == 2
\* granularity of the model's clock, in ms
TickMs == 250
\* rows of a table in the runs that sort mixed cells
MaxSortRows == 4
\* nodes (groups and conditions) of a filter tree in the evaluator's runs
MaxNodes == 4
\* setTimeout(applyFilter, 500)
DebounceMs == 500
\* const minWidth = 50
MinWidth == 50

Null == "null"

\* keys of the declared columns, in declaration order
ColumnKeys == <<"c1", "c2">>
Columns == {ColumnKeys[i] : i \in DOMAIN ColumnKeys}

\* regex texts a user types (sequences of characters)
Regexes == {<<>>, <<"a">>}

VARIABLES
  \* --- AdvancedFilter instance (Card.tsx 232-235) ---
  mounted,            \* the editor is rendered (data.length > 0)
  instance,           \* number of the current/last editor instance
  filterRoot,         \* useState<FilterGroup>(createDefaultFilter)
  isAutoApply,        \* useState(defaultAutoApply)
  debouncedTimerRef,  \* useRef: id of the last timer started, 0 for null
  localState,         \* FilterConditionItem local state, per mounted condition id
  \* --- module globals / event loop ---
  filterValuesStore,  \* the module-level Map (Card.tsx 35)
  timers,             \* pending setTimeout callbacks
  nextId,             \* generateId's freshness
  \* --- FilterableTable (FilterableTable.tsx 27-33) ---
  data,               \* the raw rows (prop)
  filterEvaluator,    \* the active predicate
  sortState,
  \* --- observation of the run ---
  gestures,           \* user gestures so far
  lastOp,             \* the handler that ran last
  sinceEdit,          \* ms since the last edit, capped at DebounceMs
  pubsSinceEdit,      \* timer publishes since the last edit
  autoSinceEdit,      \* the last edit was made in auto mode and the mode has not changed since
  burstLen,           \* edits of the current burst (each less than DebounceMs after the previous), capped at 2
  sortLog,            \* the last column activations (at most 3) since the last reset, with the state each met
  removedIds,         \* ids of the conditions handleRemoveChild has removed from the tree
  \* --- environment and props, fixed for a run ---
  sortEngine,         \* the engine's Array.prototype.sort
  allowResize,        \* prop allowResize
  columns,            \* prop columns: the declared ColumnDefinitions, in order
  layout,             \* per column key: the pixel width the browser renders a column without a pixel width at
  \* --- FilterableTable.tsx 36-51 and DataTable.tsx 29-30 ---
  visibleColumns,     \* useState<string[]>(defaultVisibleColumns || allColumnKeys)
  columnWidths,       \* useState<Record<string, string>>(getInitialWidths)
  resizeDataRef,      \* useRef<ResizeData | null>: <<>> for null, <<data>> otherwise
  resizingColumn,     \* useState<string | null>
  listening,          \* document has the mousemove/mouseup listeners of a gesture
  onFilteredDataChange, \* the rows the callback prop was last invoked with
  \* --- export (FilterableTable.tsx 52-53, 130-159) ---
  showExportModal,    \* useState(false)
  exportType,         \* useState<ExportDataType>("visible")
  blob                \* the text of the file last downloaded: <<>> for none, <<text>> otherwise

\* what no handler changes
envVars == <<sortEngine, allowResize, columns, layout>>
\* column visibility, widths and the resize gesture
tableVars == <<visibleColumns, columnWidths, resizeDataRef, resizingColumn, listening>>
\* the export modal and the file it downloads
exportVars == <<showExportModal, exportType, blob>>

vars == <<mounted, instance, filterRoot, isAutoApply, debouncedTimerRef, localState,
          filterValuesStore, timers, nextId, data, filterEvaluator, sortState,
          gestures, lastOp, sinceEdit, pubsSinceEdit, autoSinceEdit, burstLen, sortLog,
          removedIds, envVars, tableVars, onFilteredDataChange, exportVars>>

(***************************************************************************)
(* Filter tree (types: FilterCondition, FilterGroup).                      *)
(***************************************************************************)
Condition(id, column, regex, caseSensitive) ==
  [id |-> id, type |-> "condition", column |-> column, regex |-> regex,
   caseSensitive |-> caseSensitive]

Group(id, operator, children) ==
  [id |-> id, type |-> "group", operator |-> operator, children |-> children]

\* createDefaultFilter(): one AND group holding one empty condition
createDefaultFilter(groupId, conditionId) ==
  Group(groupId, "AND", <<Condition(conditionId, "", <<>>, FALSE)>>)

\* deepClone: a structural copy; values are immutable here, the copy is the value
deepClone(node) == node

\* placeholder for the state of an instance that does not exist
NoRoot == Group(0, "AND", <<>>)

RECURSIVE CondNodes(_)
\* the condition nodes of a subtree
CondNodes(node) ==
  IF node.type = "condition" THEN {node}
  ELSE UNION {CondNodes(node.children[i]) : i \in DOMAIN node.children}

CondIds(node) == {c.id : c \in CondNodes(node)}

RECURSIVE GroupPaths(_)
\* the paths (child indexes from the root) of the groups of a tree: one
\* FilterGroupBuilder is rendered per group
GroupPaths(node) ==
  IF node.type = "condition" THEN {}
  ELSE {<<>>} \cup UNION {{<<i>> \o p : p \in GroupPaths(node.children[i])} :
                          i \in DOMAIN node.children}

RECURSIVE NodeAt(_, _)
NodeAt(node, path) ==
  IF path = <<>> THEN node ELSE NodeAt(node.children[Head(path)], Tail(path))

Front(s) == SubSeq(s, 1, Len(s) - 1)
Last(s) == s[Len(s)]
RemoveAt(s, index) == SubSeq(s, 1, index - 1) \o SubSeq(s, index + 1, Len(s))

(***************************************************************************)
(* Value store (Card.tsx 35-54).                                           *)
(***************************************************************************)
Entry(column, regex, caseSensitive) ==
  [column |-> column, regex |-> regex, caseSensitive |-> caseSensitive]

StorePut(store, id, entry) ==
  [i \in DOMAIN store \cup {id} |-> IF i = id THEN entry ELSE store[i]]

StoreDelete(store, ids) == [i \in DOMAIN store \ ids |-> store[i]]

\* getFilterValue: the store after the call (inserts the defaults when absent)
getFilterValueStore(store, id, defColumn, defRegex, defCaseSensitive) ==
  IF id \in DOMAIN store THEN store
  ELSE StorePut(store, id, Entry(defColumn, defRegex, defCaseSensitive))

\* getFilterValue: the entry returned
getFilterValue(store, id, defColumn, defRegex, defCaseSensitive) ==
  getFilterValueStore(store, id, defColumn, defRegex, defCaseSensitive)[id]

setFilterValue(store, id, column, regex, caseSensitive) ==
  StorePut(store, id, Entry(column, regex, caseSensitive))

RECURSIVE buildFilterWithValues(_, _)
\* buildFilterWithValues: the tree returned, read against `store`
buildFilterWithValues(node, store) ==
  IF node.type = "condition"
  THEN LET values == getFilterValue(store, node.id, node.column, node.regex,
                                    node.caseSensitive)
       IN [node EXCEPT !.column = values.column, !.regex = values.regex,
                       !.caseSensitive = values.caseSensitive]
  ELSE [node EXCEPT !.children =
          [i \in DOMAIN node.children |-> buildFilterWithValues(node.children[i], store)]]

\* buildFilterWithValues: the store it leaves (getFilterValue inserts what is absent)
buildFilterStore(node, store) ==
  LET absent == {c \in CondNodes(node) : c.id \notin DOMAIN store}
  IN [i \in DOMAIN store \cup {c.id : c \in absent} |->
        IF i \in DOMAIN store THEN store[i]
        ELSE LET c == CHOOSE c \in absent : c.id = i
             IN Entry(c.column, c.regex, c.caseSensitive)]

\* columns[0]?.value || ""
DefaultColumn == IF Len(ColumnKeys) > 0 THEN ColumnKeys[1] ELSE ""

\* FilterConditionItem's body: getFilterValue(condition.id, condition.column || columns[0]?.value || "", ...)
ItemInit(store, c) ==
  getFilterValue(store, c.id, IF c.column # "" THEN c.column ELSE DefaultColumn,
                 c.regex, c.caseSensitive)

\* a render that writes the values of the tree's nodes over the stored ones
RenderStore_FromNodes(store, root) ==
  [i \in DOMAIN store \cup CondIds(root) |->
     IF i \in CondIds(root)
     THEN LET c == CHOOSE c \in CondNodes(root) : c.id = i
          IN Entry(IF c.column # "" THEN c.column ELSE DefaultColumn, c.regex, c.caseSensitive)
     ELSE store[i]]

\* the store after a render of the tree: every rendered condition item has run its body
RenderStore(store, root) ==
  LET absent == {c \in CondNodes(root) : c.id \notin DOMAIN store}
  IN [i \in DOMAIN store \cup {c.id : c \in absent} |->
        IF i \in DOMAIN store THEN store[i]
        ELSE ItemInit(store, CHOOSE c \in absent : c.id = i)]

\* the items' local state after a render: kept for an item that stays mounted,
\* useState(initVals...) for a new one, dropped for an unmounted one
RenderLocal(local, store, root) ==
  [i \in CondIds(root) |->
     IF i \in DOMAIN local THEN local[i]
     ELSE ItemInit(store, CHOOSE c \in CondNodes(root) : c.id = i)]

(***************************************************************************)
(* Predicates handed to onFilterChange.                                    *)
(***************************************************************************)
\* () => true
AlwaysTrue == [kind |-> "true"]
\* createEvaluator(completeFilter)
createEvaluator(root) == [kind |-> "tree", root |-> root]

(***************************************************************************)
(* Row values and their string forms.  A string is a sequence of           *)
(* characters; a cell is a number, a boolean, a string, null or undefined. *)
(***************************************************************************)
Num(n) == [t |-> "number", v |-> n]
Bool(b) == [t |-> "boolean", v |-> b]
Str(chars) == [t |-> "string", v |-> chars]
NullValue == [t |-> "null"]
Undefined == [t |-> "undefined"]

IsNullish(value) == value.t \in {"null", "undefined"}

\* row[column]: undefined for a key the row does not have
RowGet(row, column) == IF column \in DOMAIN row THEN row[column] ELSE Undefined

Digits == <<"0", "1", "2", "3", "4", "5", "6", "7", "8", "9">>

RECURSIVE NatToString(_)
NatToString(n) ==
  IF n < 10 THEN <<Digits[n + 1]>> ELSE NatToString(n \div 10) \o <<Digits[(n % 10) + 1]>>

\* String(value)
StringOf(value) ==
  CASE value.t = "string" -> value.v
    [] value.t = "number" -> IF value.v < 0 THEN <<"-">> \o NatToString(-value.v)
                             ELSE NatToString(value.v)
    [] value.t = "boolean" -> IF value.v THEN <<"t", "r", "u", "e">>
                              ELSE <<"f", "a", "l", "s", "e">>
    [] value.t = "null" -> <<"n", "u", "l", "l">>
    [] value.t = "undefined" -> <<"u", "n", "d", "e", "f", "i", "n", "e", "d">>

\* the upper-case letters of the model's alphabet and their lower-case forms
LowerChar(c) ==
  CASE c = "A" -> "a" [] c = "B" -> "b" [] OTHER -> c

\* String.prototype.toLowerCase
toLowerCase(chars) == [i \in DOMAIN chars |-> LowerChar(chars[i])]

\* collation order of the (lower-case) characters: punctuation, digits, letters
Collation ==
  <<"-", "0", "1", "2", "3", "4", "5", "6", "7", "8", "9",
    "a", "b", "d", "e", "f", "i", "l", "n", "r", "s", "t", "u">>

Rank(c) == CHOOSE i \in DOMAIN Collation : Collation[i] = c

RECURSIVE localeCompare(_, _)
\* String.prototype.localeCompare on lower-case strings: -1, 0 or 1
localeCompare(x, y) ==
  IF x = <<>> /\ y = <<>> THEN 0
  ELSE IF x = <<>> THEN -1
  ELSE IF y = <<>> THEN 1
  ELSE IF Rank(Head(x)) < Rank(Head(y)) THEN -1
  ELSE IF Rank(Head(x)) > Rank(Head(y)) THEN 1
  ELSE localeCompare(Tail(x), Tail(y))

(***************************************************************************)
(* Filter evaluator (Card.tsx 237-258).  The regular expressions of the    *)
(* model are literal texts, optionally anchored by a leading "^"; a text   *)
(* holding "(" is an unterminated group and does not compile.              *)
(***************************************************************************)
RegexCompiles(regex) == \A i \in DOMAIN regex : regex[i] # "("

\* regex.test(str) for a compiled regex; ignoreCase is the "i" flag
RegexTest(regex, ignoreCase, str) ==
  LET anchored == regex # <<>> /\ regex[1] = "^"
      literal == IF anchored THEN Tail(regex) ELSE regex
      fold(chars) == IF ignoreCase THEN toLowerCase(chars) ELSE chars
      pat == fold(literal)
      txt == fold(str)
      matchesAt(k) == k + Len(pat) - 1 <= Len(txt) /\ SubSeq(txt, k, k + Len(pat) - 1) = pat
  IN IF anchored THEN matchesAt(1) ELSE \E k \in 1..(Len(txt) + 1) : matchesAt(k)

RECURSIVE evaluateNode_FailsOpen(_, _)
\* an evaluator whose condition passes every row when its regex does not compile
evaluateNode_FailsOpen(node, row) ==
  IF node.type = "condition"
  THEN IF node.regex = <<>> THEN TRUE
       ELSE IF ~RegexCompiles(node.regex) THEN TRUE
       ELSE LET value == RowGet(row, node.column)
                strValue == IF IsNullish(value) THEN <<>> ELSE StringOf(value)
            IN RegexTest(node.regex, ~node.caseSensitive, strValue)
  ELSE IF Len(node.children) = 0 THEN TRUE
       ELSE IF node.operator = "AND"
            THEN \A i \in DOMAIN node.children : evaluateNode_FailsOpen(node.children[i], row)
            ELSE \E i \in DOMAIN node.children : evaluateNode_FailsOpen(node.children[i], row)

RECURSIVE evaluateNode_EmptySome(_, _)
\* an evaluator without the test for a group with no children: every() and
\* some() decide, and some() of no children is false
evaluateNode_EmptySome(node, row) ==
  IF node.type = "condition"
  THEN IF node.regex = <<>> THEN TRUE
       ELSE IF ~RegexCompiles(node.regex) THEN FALSE
       ELSE LET value == RowGet(row, node.column)
                strValue == IF IsNullish(value) THEN <<>> ELSE StringOf(value)
            IN RegexTest(node.regex, ~node.caseSensitive, strValue)
  ELSE IF node.operator = "AND"
       THEN \A i \in DOMAIN node.children : evaluateNode_EmptySome(node.children[i], row)
       ELSE \E i \in DOMAIN node.children : evaluateNode_EmptySome(node.children[i], row)

RECURSIVE evaluateNode(_, _)
evaluateNode(node, row) ==
  IF node.type = "condition"
  THEN IF node.regex = <<>> THEN TRUE
       ELSE IF ~RegexCompiles(node.regex) THEN FALSE
       ELSE LET value == RowGet(row, node.column)
                strValue == IF IsNullish(value) THEN <<>> ELSE StringOf(value)
            IN RegexTest(node.regex, ~node.caseSensitive, strValue)
  ELSE IF Len(node.children) = 0 THEN TRUE
       ELSE IF node.operator = "AND"
            THEN \A i \in DOMAIN node.children : evaluateNode(node.children[i], row)
            ELSE \E i \in DOMAIN node.children : evaluateNode(node.children[i], row)

\* calling a published predicate on a row
Holds(evaluator, row) ==
  IF evaluator.kind = "true" THEN TRUE ELSE evaluateNode(evaluator.root, row)

(***************************************************************************)
(* Sort comparator and derived view (FilterableTable.tsx 97-128).          *)
(***************************************************************************)
getRawValue(row, column) ==
  LET value == RowGet(row, column)
  IN IF IsNullish(value) THEN Str(<<>>)
     ELSE IF value.t \in {"number", "boolean"} THEN value
     ELSE Str(StringOf(value))

\* a comparator that orders true before false
comparison_TrueFirst(aVal, bVal) ==
  IF aVal.t = "number" /\ bVal.t = "number" THEN aVal.v - bVal.v
  ELSE IF aVal.t = "boolean" /\ bVal.t = "boolean"
       THEN IF aVal.v = bVal.v THEN 0 ELSE IF aVal.v THEN -1 ELSE 1
  ELSE localeCompare(toLowerCase(StringOf(aVal)), toLowerCase(StringOf(bVal)))

\* `comparison` of the sort callback, from the two raw values
comparison(aVal, bVal) ==
  IF aVal.t = "number" /\ bVal.t = "number" THEN aVal.v - bVal.v
  ELSE IF aVal.t = "boolean" /\ bVal.t = "boolean"
       THEN IF aVal.v = bVal.v THEN 0 ELSE IF aVal.v THEN 1 ELSE -1
  ELSE localeCompare(toLowerCase(StringOf(aVal)), toLowerCase(StringOf(bVal)))

\* the sort callback (a, b) => ... for a column and a direction
compareRows(a, b, column, direction) ==
  LET c == comparison(getRawValue(a, column), getRawValue(b, column))
  IN IF direction = "asc" THEN c ELSE -c

RECURSIVE InsertSorted(_, _, _, _)
\* `row` inserted into the sorted `sorted`, after every row it does not precede
InsertSorted(sorted, row, column, direction) ==
  IF sorted = <<>> THEN <<row>>
  ELSE IF compareRows(Last(sorted), row, column, direction) <= 0 THEN Append(sorted, row)
  ELSE Append(InsertSorted(Front(sorted), row, column, direction), Last(sorted))

RECURSIVE StableSort(_, _, _)
\* Array.prototype.sort with the callback: a stable insertion sort
StableSort(rows, column, direction) ==
  IF rows = <<>> THEN <<>>
  ELSE InsertSorted(StableSort(Front(rows), column, direction), Last(rows), column, direction)

Reverse(s) == [i \in DOMAIN s |-> s[Len(s) + 1 - i]]

\* TimSort's CountAndMakeRun: the run at the start of the array is descending
\* when its second row orders strictly before its first
RunIsDescending(rows, column, direction) ==
  compareRows(rows[2], rows[1], column, direction) < 0

\* the length of the run at the start of an array of two or more rows
RunLength(rows, column, direction) ==
  LET continues(idx) ==
        LET order == compareRows(rows[idx], rows[idx - 1], column, direction)
        IN IF RunIsDescending(rows, column, direction) THEN order < 0 ELSE order >= 0
  IN CHOOSE k \in 2..Len(rows) :
       /\ \A idx \in 3..k : continues(idx)
       /\ k = Len(rows) \/ ~continues(k + 1)

\* the array with its first run made ascending (a descending run is reversed in place)
CountAndMakeRun(rows, column, direction) ==
  IF RunIsDescending(rows, column, direction)
  THEN LET k == RunLength(rows, column, direction)
       IN Reverse(SubSeq(rows, 1, k)) \o SubSeq(rows, k + 1, Len(rows))
  ELSE rows

RECURSIVE BinarySearch(_, _, _, _, _, _)
\* the 0-based position at which `pivot` goes into rows[left..right-1]
BinarySearch(rows, pivot, left, right, column, direction) ==
  IF left >= right THEN left
  ELSE LET mid == left + ((right - left) \div 2)
       IN IF compareRows(pivot, rows[mid + 1], column, direction) < 0
          THEN BinarySearch(rows, pivot, left, mid, column, direction)
          ELSE BinarySearch(rows, pivot, mid + 1, right, column, direction)

RECURSIVE BinaryInsertionSort(_, _, _, _)
\* TimSort's BinaryInsertionSort: rows[0..start-1] is sorted, the rest is inserted
BinaryInsertionSort(rows, start, column, direction) ==
  IF start >= Len(rows) THEN rows
  ELSE LET pivot == rows[start + 1]
           left == BinarySearch(rows, pivot, 0, start, column, direction)
           moved == SubSeq(rows, 1, left) \o <<pivot>> \o SubSeq(rows, left + 1, start)
                      \o SubSeq(rows, start + 2, Len(rows))
       IN BinaryInsertionSort(moved, start + 1, column, direction)

\* Array.prototype.sort with the callback, as TimSort runs it on an array
\* shorter than one minimal run (64 rows): one counted run, then binary insertion
ArrayTimSort(rows, column, direction) ==
  IF Len(rows) < 2 THEN rows
  ELSE BinaryInsertionSort(CountAndMakeRun(rows, column, direction),
                           RunLength(rows, column, direction), column, direction)

\* the sort algorithms an engine may run
Engines == {"insertion", "timsort"}

\* !column and !direction: null and the empty string are falsy
Falsy(x) == x \in {Null, ""}

sortData(dataToSort, state) ==
  IF Falsy(state.column) \/ Falsy(state.direction) THEN dataToSort
  ELSE IF sortEngine = "timsort"
       THEN ArrayTimSort(dataToSort, state.column, state.direction)
       ELSE StableSort(dataToSort, state.column, state.direction)

\* data.filter(filterEvaluator)
Filtered(rows, evaluator) == SelectSeq(rows, LAMBDA row : Holds(evaluator, row))

\* a view that sorts the raw rows without filtering them
processedDataOf_Unfiltered(rows, evaluator, state) == sortData(rows, state)

\* the useMemo of processedData, from its dependencies
processedDataOf(rows, evaluator, state) == sortData(Filtered(rows, evaluator), state)

\* the useMemo of processedData
processedData == processedDataOf(data, filterEvaluator, sortState)

\* a view that sorts the array of the raw rows itself and filters it afterwards
processedDataArrays_SortsRaw(rows, evaluator, state) ==
  LET sortedRows == sortData(rows, state)
  IN [data |-> sortedRows, sorted |-> Filtered(sortedRows, evaluator)]

\* the arrays the useMemo of processedData leaves when it has run on the
\* `data` prop: filter returns a new array, sortData returns that array or a
\* sorted copy of it ([...dataToSort]), so no write goes to `data`
processedDataArrays(rows, evaluator, state) ==
  LET filtered == Filtered(rows, evaluator)
      sorted == sortData(filtered, state)
  IN [data |-> rows, sorted |-> sorted]

\* a column width: a percentage or a number of pixels
Percent(n) == [n |-> n, unit |-> "%"]
Px(n) == [n |-> n, unit |-> "px"]

\* a ColumnDefinition: its key, its label and its `resizable !== false`
ColumnDefinition(key, label, isResizable) ==
  [key |-> key, label |-> label, resizable |-> isResizable]

\* the labels of the columns of the runs that do not vary them
PlainLabel(key) ==
  CASE key = "c1" -> <<"A">> [] key = "c2" -> <<"B">> [] OTHER -> <<"a">>

Range(s) == {s[i] : i \in DOMAIN s}

\* columns.map((col) => col.key)
allColumnKeys == [i \in DOMAIN columns |-> columns[i].key]

\* getInitialWidths: no column declares a width
getInitialWidths == [c \in Range(allColumnKeys) |-> Percent(100 \div Len(columns))]

\* useState<string[]>(defaultVisibleColumns || allColumnKeys); the optional
\* prop is <<>> when absent and <<value>> when given
InitialVisibleColumns(defaultVisibleColumns) ==
  IF defaultVisibleColumns = <<>> THEN allColumnKeys ELSE defaultVisibleColumns[1]

\* the table as it is constructed with every column visible and resizable
DefaultTable ==
  /\ allowResize = TRUE
  /\ columns = [i \in DOMAIN ColumnKeys |->
                  ColumnDefinition(ColumnKeys[i], PlainLabel(ColumnKeys[i]), TRUE)]
  /\ layout = [c \in Columns |-> 120]
  /\ visibleColumns = InitialVisibleColumns(<<>>)
  /\ columnWidths = getInitialWidths
  /\ resizeDataRef = <<>>
  /\ resizingColumn = Null
  /\ listening = FALSE
  /\ removedIds = {}
  /\ showExportModal = FALSE
  /\ exportType = "visible"
  /\ blob = <<>>

\* the rows of the scheduler's runs
SampleData ==
  << [c1 |-> Str(<<"a">>), c2 |-> Num(10)],
     [c1 |-> Str(<<"B">>), c2 |-> Num(2)] >>

(***************************************************************************)
(* Structural operations of FilterGroupBuilder (Card.tsx 142-185): the     *)
(* tree each handler passes to onStructureChange.                          *)
(***************************************************************************)
\* the two objects a handler holds when it calls onStructureChange: the
\* `group` prop it was given and `updated`; a write to `updated` reaches
\* `group` only if the two are one object
Objects(group, updated) == [group |-> group, updated |-> updated]

\* handleToggleOperator: updated = deepClone(group); updated.operator = ...
ToggleOperator(group) ==
  LET updated == deepClone(group)
  IN Objects(group, [updated EXCEPT !.operator = IF @ = "AND" THEN "OR" ELSE "AND"])

\* handleAddCondition: updated = deepClone(group); updated.children.push(...)
AddCondition(group, newId, defaultColumn) ==
  LET updated == deepClone(group)
  IN Objects(group,
             [updated EXCEPT !.children = Append(@, Condition(newId, defaultColumn, <<>>, FALSE))])

\* handleAddGroup: updated = deepClone(group); updated.children.push(...)
AddGroup(group, newConditionId, newGroupId, defaultColumn) ==
  LET updated == deepClone(group)
  IN Objects(group,
             [updated EXCEPT !.children =
                Append(@, Group(newGroupId, "AND",
                                <<Condition(newConditionId, defaultColumn, <<>>, FALSE)>>))])

\* a removal that splices the children of the group it was given: `updated`
\* is the given object, not a copy
RemoveChild_InPlace(group, index) ==
  LET updated == [group EXCEPT !.children = RemoveAt(@, index)]
  IN Objects(updated, updated)

\* handleRemoveChild: updated = deepClone(group); updated.children.splice(index, 1)
RemoveChild(group, index) ==
  LET updated == deepClone(group)
  IN Objects(group, [updated EXCEPT !.children = RemoveAt(@, index)])

\* the trees the handlers pass to onStructureChange
ToggledGroup(group) == ToggleOperator(group).updated
GroupWithCondition(group, newId, defaultColumn) ==
  AddCondition(group, newId, defaultColumn).updated
GroupWithGroup(group, newConditionId, newGroupId, defaultColumn) ==
  AddGroup(group, newConditionId, newGroupId, defaultColumn).updated
GroupWithoutChild(group, index) == RemoveChild(group, index).updated

\* handleRemoveChild: removeFromStore(child)
removeFromStore(store, child) == StoreDelete(store, CondIds(child))

\* handleChildStructureChange
handleChildStructureChange(group, index, child) ==
  LET updated == deepClone(group)
  IN [updated EXCEPT !.children[index] = child]

RECURSIVE onStructureChange(_, _, _)
\* the onStructureChange chain from the group at `path` up to the root: each
\* ancestor's builder runs handleChildStructureChange on its own group prop
onStructureChange(root, path, updated) ==
  IF path = <<>> THEN updated
  ELSE onStructureChange(root, Front(path),
         handleChildStructureChange(NodeAt(root, Front(path)), Last(path), updated))

(***************************************************************************)
(* Debounced apply scheduler (Card.tsx 260-291).                           *)
(***************************************************************************)
Min(a, b) == IF a < b THEN a ELSE b
Max(a, b) == IF a > b THEN a ELSE b

\* a scheduler that starts a timer without cancelling the pending one
clearTimeout_Missing(ts, ref) == ts

\* clearTimeout(debouncedTimerRef.current): a null, fired or cleared id clears nothing
clearTimeout(ts, ref) == {t \in ts : t.id # ref}

\* setTimeout's handle: a positive id no live timer and no kept handle has
FreshTimerId ==
  CHOOSE n \in 1..(Cardinality(timers) + 2) :
    /\ n \notin {t.id : t \in timers} \cup {debouncedTimerRef}
    /\ \A m \in 1..(n - 1) : m \in {t.id : t \in timers} \cup {debouncedTimerRef}

\* setTimeout(applyFilter, 500): applyFilter is the closure of the render the
\* handler belongs to; `root` is the filterRoot that closure captured
Timer(id, root) ==
  [id |-> id, root |-> root, remaining |-> DebounceMs, inst |-> instance]

\* triggerDebouncedApply, as called from a handler of the current render
triggerDebouncedApply ==
  LET cleared == clearTimeout(timers, debouncedTimerRef)
  IN IF isAutoApply
     THEN /\ timers' = cleared \cup {Timer(FreshTimerId, filterRoot)}
          /\ debouncedTimerRef' = FreshTimerId
     ELSE /\ timers' = cleared
          /\ UNCHANGED debouncedTimerRef

\* what a handler observed: its name and whether it cancelled a live timer
Op(name) == [op |-> name, cancelled |-> clearTimeout(timers, debouncedTimerRef) # timers]
OpPlain(name) == [op |-> name, cancelled |-> FALSE]

\* a user gesture is counted against the bound of the run
Gesture ==
  /\ gestures < MaxGestures
  /\ gestures' = gestures + 1

EditObserved ==
  /\ Gesture
  /\ sinceEdit' = 0
  /\ pubsSinceEdit' = 0
  /\ autoSinceEdit' = isAutoApply
  /\ burstLen' = IF sinceEdit < DebounceMs THEN Min(burstLen + 1, 2) ELSE 1
  /\ UNCHANGED sortLog

\* what a handler of FilterGroupBuilder observed: the builder it belongs to
\* (the path of its group), the child index it was called with (0 for none)
\* and the `group` prop as the handler left it
StructureOp(kind, path, index, group) ==
  [op |-> "structure", cancelled |-> clearTimeout(timers, debouncedTimerRef) # timers,
   kind |-> kind, path |-> path, index |-> index, group |-> group]

\* handleStructureChange(updated), with `store` the value store the calling
\* handler left, followed by the re-render of the editor
handleStructureChange(updated, store, observed) ==
  /\ filterRoot' = updated
  /\ triggerDebouncedApply
  /\ filterValuesStore' = RenderStore(store, updated)
  /\ localState' = RenderLocal(localState, store, updated)
  /\ lastOp' = observed
  /\ EditObserved
  /\ UNCHANGED <<mounted, instance, isAutoApply, filterEvaluator, sortState>>
  /\ UNCHANGED data
  /\ UNCHANGED <<envVars, tableVars, exportVars>>
  /\ UNCHANGED onFilteredDataChange

handleToggleOperator(path) ==
  /\ mounted
  /\ path \in GroupPaths(filterRoot)
  /\ handleStructureChange(
       onStructureChange(filterRoot, path, ToggledGroup(NodeAt(filterRoot, path))),
       filterValuesStore,
       StructureOp("toggleOperator", path, 0, ToggleOperator(NodeAt(filterRoot, path)).group))
  /\ UNCHANGED nextId
  /\ UNCHANGED removedIds

handleAddCondition(path) ==
  /\ mounted
  /\ path \in GroupPaths(filterRoot)
  /\ nextId <= MaxIds
  /\ LET newId == nextId
         store == setFilterValue(filterValuesStore, newId, DefaultColumn, <<>>, FALSE)
     IN handleStructureChange(
          onStructureChange(filterRoot, path,
            GroupWithCondition(NodeAt(filterRoot, path), newId, DefaultColumn)),
          store,
          StructureOp("addCondition", path, 0,
                      AddCondition(NodeAt(filterRoot, path), newId, DefaultColumn).group))
  /\ nextId' = nextId + 1
  /\ UNCHANGED removedIds

handleAddGroup(path) ==
  /\ mounted
  /\ path \in GroupPaths(filterRoot)
  /\ nextId + 1 <= MaxIds
  /\ LET newConditionId == nextId
         newGroupId == nextId + 1
         store == setFilterValue(filterValuesStore, newConditionId, DefaultColumn, <<>>, FALSE)
     IN handleStructureChange(
          onStructureChange(filterRoot, path,
            GroupWithGroup(NodeAt(filterRoot, path), newConditionId, newGroupId,
                           DefaultColumn)),
          store,
          StructureOp("addGroup", path, 0,
                      AddGroup(NodeAt(filterRoot, path), newConditionId, newGroupId,
                               DefaultColumn).group))
  /\ nextId' = nextId + 2
  /\ UNCHANGED removedIds

handleRemoveChild(path, index) ==
  /\ mounted
  /\ path \in GroupPaths(filterRoot)
  /\ index \in DOMAIN NodeAt(filterRoot, path).children
  /\ LET group == NodeAt(filterRoot, path)
         store == removeFromStore(filterValuesStore, group.children[index])
     IN handleStructureChange(
          onStructureChange(filterRoot, path, GroupWithoutChild(group, index)),
          store,
          StructureOp("removeChild", path, index, RemoveChild(group, index).group))
  /\ UNCHANGED nextId
  /\ removedIds' = removedIds \cup CondIds(NodeAt(filterRoot, path).children[index])

\* FilterConditionItem: onValueChange() after setFilterValue and the local setter
valueEdit(id, column, regex, caseSensitive) ==
  /\ mounted
  /\ id \in CondIds(filterRoot)
  /\ localState' = [localState EXCEPT ![id] = Entry(column, regex, caseSensitive)]
  /\ filterValuesStore' = setFilterValue(filterValuesStore, id, column, regex, caseSensitive)
  /\ triggerDebouncedApply
  /\ lastOp' = Op("value")
  /\ EditObserved
  /\ UNCHANGED <<mounted, instance, filterRoot, isAutoApply, nextId, filterEvaluator,
                 sortState>>
  /\ UNCHANGED data
  /\ UNCHANGED <<envVars, tableVars, exportVars>>
  /\ UNCHANGED removedIds
  /\ UNCHANGED onFilteredDataChange

handleColumnChange(id, value) ==
  /\ mounted /\ id \in DOMAIN localState
  /\ valueEdit(id, value, localState[id].regex, localState[id].caseSensitive)

handleRegexInput(id, value) ==
  /\ mounted /\ id \in DOMAIN localState
  /\ valueEdit(id, localState[id].column, value, localState[id].caseSensitive)

handleCaseSensitiveChange(id, checked) ==
  /\ mounted /\ id \in DOMAIN localState
  /\ valueEdit(id, localState[id].column, localState[id].regex, checked)

\* the auto-apply checkbox: setIsAutoApply(e.target.checked)
toggleAutoApply ==
  /\ Gesture
  /\ mounted
  /\ isAutoApply' = ~isAutoApply
  /\ lastOp' = OpPlain("toggleAuto")
  /\ autoSinceEdit' = FALSE
  /\ UNCHANGED <<mounted, instance, filterRoot, debouncedTimerRef, localState,
                 filterValuesStore, timers, nextId, filterEvaluator, sortState,
                 sinceEdit, pubsSinceEdit>>
  /\ UNCHANGED <<burstLen, sortLog>>
  /\ UNCHANGED data
  /\ UNCHANGED <<envVars, tableVars, exportVars>>
  /\ UNCHANGED removedIds
  /\ UNCHANGED onFilteredDataChange

\* handleFilterChange: setFilterEvaluator(() => evaluator)
handleFilterChange(evaluator) == filterEvaluator' = evaluator

\* a commit that applies without cancelling the pending timer
handleEnterKey_KeepsTimer ==
  /\ Gesture
  /\ mounted
  /\ CondIds(filterRoot) # {}
  /\ ~isAutoApply
  /\ timers' = timers
  /\ handleFilterChange(createEvaluator(buildFilterWithValues(filterRoot, filterValuesStore)))
  /\ filterValuesStore' =
       RenderStore(buildFilterStore(filterRoot, filterValuesStore), filterRoot)
  /\ lastOp' = Op("enter")
  /\ UNCHANGED <<mounted, instance, filterRoot, isAutoApply, debouncedTimerRef,
                 localState, nextId, sortState, sinceEdit, pubsSinceEdit, autoSinceEdit>>
  /\ UNCHANGED <<burstLen, sortLog>>
  /\ data' = processedDataArrays(data, filterEvaluator', sortState').data
  /\ UNCHANGED <<envVars, tableVars, exportVars>>
  /\ UNCHANGED removedIds
  /\ onFilteredDataChange' = processedDataOf(data', filterEvaluator', sortState')

\* handleEnterKey (Enter in a condition's regex input); a no-op in auto mode
handleEnterKey ==
  /\ Gesture
  /\ mounted
  /\ CondIds(filterRoot) # {}
  /\ ~isAutoApply
  /\ timers' = clearTimeout(timers, debouncedTimerRef)
  /\ handleFilterChange(createEvaluator(buildFilterWithValues(filterRoot, filterValuesStore)))
  /\ filterValuesStore' =
       RenderStore(buildFilterStore(filterRoot, filterValuesStore), filterRoot)
  /\ lastOp' = Op("enter")
  /\ UNCHANGED <<mounted, instance, filterRoot, isAutoApply, debouncedTimerRef,
                 localState, nextId, sortState, sinceEdit, pubsSinceEdit, autoSinceEdit>>
  /\ UNCHANGED <<burstLen, sortLog>>
  /\ data' = processedDataArrays(data, filterEvaluator', sortState').data
  /\ UNCHANGED <<envVars, tableVars, exportVars>>
  /\ UNCHANGED removedIds
  /\ onFilteredDataChange' = processedDataOf(data', filterEvaluator', sortState')

\* a reset that publishes the always-true predicate and leaves the sort state
handleReset_KeepsSort ==
  /\ Gesture
  /\ mounted
  /\ handleFilterChange(AlwaysTrue)
  /\ UNCHANGED sortState
  /\ lastOp' = OpPlain("reset")
  /\ UNCHANGED <<mounted, instance, filterRoot, isAutoApply, debouncedTimerRef,
                 localState, filterValuesStore, timers, nextId, sinceEdit,
                 pubsSinceEdit, autoSinceEdit>>
  /\ sortLog' = <<>>
  /\ UNCHANGED burstLen
  /\ data' = processedDataArrays(data, filterEvaluator', sortState').data
  /\ UNCHANGED <<envVars, tableVars, exportVars>>
  /\ UNCHANGED removedIds
  /\ onFilteredDataChange' = processedDataOf(data', filterEvaluator', sortState')

\* AdvancedFilter.handleReset: onFilterChange(() => true); onReset?.(), where
\* onReset is FilterableTable.handleReset: setSortState({null, null})
handleReset ==
  /\ Gesture
  /\ mounted
  /\ handleFilterChange(AlwaysTrue)
  /\ sortState' = [column |-> Null, direction |-> Null]
  /\ lastOp' = OpPlain("reset")
  /\ UNCHANGED <<mounted, instance, filterRoot, isAutoApply, debouncedTimerRef,
                 localState, filterValuesStore, timers, nextId, sinceEdit,
                 pubsSinceEdit, autoSinceEdit>>
  /\ sortLog' = <<>>
  /\ UNCHANGED burstLen
  /\ data' = processedDataArrays(data, filterEvaluator', sortState').data
  /\ UNCHANGED <<envVars, tableVars, exportVars>>
  /\ UNCHANGED removedIds
  /\ onFilteredDataChange' = processedDataOf(data', filterEvaluator', sortState')

\* a pending timer whose delay has elapsed runs its callback: the applyFilter
\* closure it was created with
timerFires(t) ==
  /\ t \in timers
  /\ t.remaining = 0
  /\ timers' = timers \ {t}
  /\ handleFilterChange(createEvaluator(buildFilterWithValues(t.root, filterValuesStore)))
  /\ LET store == buildFilterStore(t.root, filterValuesStore)
     IN filterValuesStore' = IF mounted THEN RenderStore(store, filterRoot) ELSE store
  /\ lastOp' = OpPlain("fire")
  /\ pubsSinceEdit' = Min(pubsSinceEdit + 1, 2)
  /\ UNCHANGED <<gestures, mounted, instance, filterRoot, isAutoApply, debouncedTimerRef,
                 localState, nextId, sortState, sinceEdit, autoSinceEdit>>
  /\ UNCHANGED <<burstLen, sortLog>>
  /\ data' = processedDataArrays(data, filterEvaluator', sortState').data
  /\ UNCHANGED <<envVars, tableVars, exportVars>>
  /\ UNCHANGED removedIds
  /\ onFilteredDataChange' = processedDataOf(data', filterEvaluator', sortState')

\* time passes
tick ==
  /\ timers' = {[t EXCEPT !.remaining = Max(0, @ - TickMs)] : t \in timers}
  /\ sinceEdit' = Min(sinceEdit + TickMs, DebounceMs)
  /\ UNCHANGED <<gestures, mounted, instance, filterRoot, isAutoApply, debouncedTimerRef,
                 localState, filterValuesStore, nextId, filterEvaluator, sortState,
                 lastOp, pubsSinceEdit, autoSinceEdit>>
  /\ UNCHANGED <<burstLen, sortLog>>
  /\ UNCHANGED data
  /\ UNCHANGED <<envVars, tableVars, exportVars>>
  /\ UNCHANGED removedIds
  /\ UNCHANGED onFilteredDataChange

\* an unmount whose effect cleanup does not clear the timer
unmountFilter_NoCleanup ==
  /\ Gesture
  /\ mounted
  /\ mounted' = FALSE
  /\ timers' = timers
  /\ filterRoot' = NoRoot
  /\ isAutoApply' = TRUE
  /\ debouncedTimerRef' = 0
  /\ localState' = <<>>
  /\ lastOp' = Op("unmount")
  /\ autoSinceEdit' = FALSE
  /\ UNCHANGED <<instance, filterValuesStore, nextId, filterEvaluator, sortState,
                 sinceEdit, pubsSinceEdit>>
  /\ UNCHANGED <<burstLen, sortLog>>
  /\ data' = processedDataArrays(<<>>, filterEvaluator', sortState').data
  /\ UNCHANGED <<envVars, tableVars, exportVars>>
  /\ UNCHANGED removedIds
  /\ onFilteredDataChange' = processedDataOf(data', filterEvaluator', sortState')

\* data becomes empty: the editor unmounts and its effect cleanup runs
unmountFilter ==
  /\ Gesture
  /\ mounted
  /\ mounted' = FALSE
  /\ timers' = clearTimeout(timers, debouncedTimerRef)
  /\ filterRoot' = NoRoot
  /\ isAutoApply' = TRUE
  /\ debouncedTimerRef' = 0
  /\ localState' = <<>>
  /\ lastOp' = Op("unmount")
  /\ autoSinceEdit' = FALSE
  /\ UNCHANGED <<instance, filterValuesStore, nextId, filterEvaluator, sortState,
                 sinceEdit, pubsSinceEdit>>
  /\ UNCHANGED <<burstLen, sortLog>>
  /\ data' = processedDataArrays(<<>>, filterEvaluator', sortState').data
  /\ UNCHANGED <<envVars, tableVars, exportVars>>
  /\ UNCHANGED removedIds
  /\ onFilteredDataChange' = processedDataOf(data', filterEvaluator', sortState')

\* data becomes non-empty: a new editor instance mounts (FilterableTable.tsx 163-165)
mountFilter ==
  /\ Gesture
  /\ ~mounted
  /\ instance < MaxInstances
  /\ nextId + 1 <= MaxIds
  /\ LET root == createDefaultFilter(nextId, nextId + 1)
     IN /\ filterRoot' = root
        /\ filterValuesStore' = RenderStore(filterValuesStore, root)
        /\ localState' = RenderLocal(<<>>, filterValuesStore, root)
  /\ mounted' = TRUE
  /\ instance' = instance + 1
  /\ nextId' = nextId + 2
  /\ isAutoApply' = TRUE
  /\ debouncedTimerRef' = 0
  /\ lastOp' = OpPlain("mount")
  /\ autoSinceEdit' = FALSE
  /\ UNCHANGED <<timers, filterEvaluator, sortState, sinceEdit, pubsSinceEdit>>
  /\ UNCHANGED <<burstLen, sortLog>>
  /\ data' = processedDataArrays(SampleData, filterEvaluator', sortState').data
  /\ UNCHANGED <<envVars, tableVars, exportVars>>
  /\ UNCHANGED removedIds
  /\ onFilteredDataChange' = processedDataOf(data', filterEvaluator', sortState')

(***************************************************************************)
(* Sort state (FilterableTable.tsx 30-33, 66-79).                          *)
(***************************************************************************)
\* a two-state cycle: the desc column goes back to asc instead of clearing
NextSortState_NoClear(current, column) ==
  IF current.column = column /\ current.direction = "asc"
  THEN [column |-> column, direction |-> "desc"]
  ELSE [column |-> column, direction |-> "asc"]

\* another column takes over the direction the previous column had
NextSortState_KeepsDirection(current, column) ==
  IF current.column = column
  THEN IF current.direction = "asc" THEN [column |-> column, direction |-> "desc"]
       ELSE IF current.direction = "desc" THEN [column |-> Null, direction |-> Null]
       ELSE [column |-> column, direction |-> "asc"]
  ELSE [column |-> column,
        direction |-> IF current.direction = "desc" THEN "desc" ELSE "asc"]

\* setSortState's updater in handleSortChange
NextSortState(current, column) ==
  IF current.column = column
  THEN IF current.direction = "asc" THEN [column |-> column, direction |-> "desc"]
       ELSE IF current.direction = "desc" THEN [column |-> Null, direction |-> Null]
       ELSE [column |-> column, direction |-> "asc"]
  ELSE [column |-> column, direction |-> "asc"]

\* useState<SortState>({column: defaultSort?.column || null, direction: defaultSort?.direction || null});
\* the optional prop is <<>> when absent and <<value>> when given
InitialSortState(defaultSort) ==
  IF defaultSort = <<>> THEN [column |-> Null, direction |-> Null]
  ELSE [column |-> IF defaultSort[1].column = "" THEN Null ELSE defaultSort[1].column,
        direction |-> defaultSort[1].direction]

handleSortChange(column) ==
  /\ Gesture
  /\ sortState' = NextSortState(sortState, column)
  /\ lastOp' = OpPlain("sort")
  /\ UNCHANGED <<mounted, instance, filterRoot, isAutoApply, debouncedTimerRef,
                 localState, filterValuesStore, timers, nextId, filterEvaluator,
                 sinceEdit, pubsSinceEdit, autoSinceEdit>>
  /\ sortLog' = LET log == Append(sortLog, [column |-> column, before |-> sortState])
                 IN IF Len(log) > 3 THEN Tail(log) ELSE log
  /\ UNCHANGED burstLen
  /\ data' = processedDataArrays(data, filterEvaluator', sortState').data
  /\ UNCHANGED <<envVars, tableVars, exportVars>>
  /\ UNCHANGED removedIds
  /\ onFilteredDataChange' = processedDataOf(data', filterEvaluator', sortState')

(***************************************************************************)
(* Column visibility (FilterableTable.tsx 85-95) and the resize gesture    *)
(* (DataTable.tsx 87-181).                                                 *)
(***************************************************************************)
\* the state of the filter editor, the sort and the derived view
filterVars == <<mounted, instance, filterRoot, isAutoApply, debouncedTimerRef, localState,
                filterValuesStore, timers, nextId, data, filterEvaluator, sortState,
                sinceEdit, pubsSinceEdit, autoSinceEdit, burstLen, sortLog, removedIds,
                onFilteredDataChange>>

\* what a table handler observed: its name, the header and the pointer position
\* it was called with, and whether it went past its early returns
TableOp(name, colIndex, clientX, accepted) ==
  [op |-> name, cancelled |-> FALSE, colIndex |-> colIndex, clientX |-> clientX,
   accepted |-> accepted]

toggleColumn(columnKey) ==
  /\ Gesture
  /\ visibleColumns' =
       IF columnKey \in Range(visibleColumns)
       THEN IF Len(visibleColumns) > 1
            THEN SelectSeq(visibleColumns, LAMBDA k : k # columnKey)
            ELSE visibleColumns
       ELSE Append(visibleColumns, columnKey)
  /\ lastOp' = TableOp("toggleColumn", 0, 0, TRUE)
  /\ UNCHANGED <<columnWidths, resizeDataRef, resizingColumn, listening>>
  /\ UNCHANGED <<filterVars, envVars, exportVars>>

selectAllColumns ==
  /\ Gesture
  /\ visibleColumns' = allColumnKeys
  /\ lastOp' = TableOp("selectAllColumns", 0, 0, TRUE)
  /\ UNCHANGED <<columnWidths, resizeDataRef, resizingColumn, listening>>
  /\ UNCHANGED <<filterVars, envVars, exportVars>>

selectNoColumns ==
  /\ Gesture
  /\ visibleColumns' = IF Len(allColumnKeys) > 0 THEN <<allColumnKeys[1]>> ELSE <<>>
  /\ lastOp' = TableOp("selectNoColumns", 0, 0, TRUE)
  /\ UNCHANGED <<columnWidths, resizeDataRef, resizingColumn, listening>>
  /\ UNCHANGED <<filterVars, envVars, exportVars>>

\* DataTable: columns.filter((col) => visibleColumns.includes(col.key))
visibleCols == SelectSeq(columns, LAMBDA col : col.key \in Range(visibleColumns))

\* visibleCols[colIndex] for a 0-based index: <<>> for undefined, <<col>> otherwise
ColAt(colIndex) ==
  IF colIndex + 1 \in DOMAIN visibleCols THEN <<visibleCols[colIndex + 1]>> ELSE <<>>

canShowResizer(colIndex) ==
  IF ~allowResize THEN FALSE
  ELSE IF ColAt(colIndex + 1) = <<>> THEN FALSE
  ELSE ColAt(colIndex)[1].resizable /\ ColAt(colIndex + 1)[1].resizable

\* th.offsetWidth of a column's header: a pixel width of the width map is
\* rendered as it is, any other width as the layout gives it
offsetWidth(key) ==
  IF columnWidths[key].unit = "px" THEN columnWidths[key].n ELSE layout[key]

\* a resize that gives the width to every column of the map
handleColumnResize_AllColumns(widths, columnKey, width) == [key \in DOMAIN widths |-> width]

\* handleColumnResize, applied to the map `widths`
handleColumnResize(widths, columnKey, width) == [widths EXCEPT ![columnKey] = width]

\* early returns that do not look at the right column's `resizable`
ResizeStartRejected_IgnoresRight(colIndex) ==
  \/ ~allowResize
  \/ ColAt(colIndex) = <<>>
  \/ ColAt(colIndex + 1) = <<>>
  \/ ~ColAt(colIndex)[1].resizable

\* the early returns of handleResizeStart
ResizeStartRejected(colIndex) ==
  \/ ~allowResize
  \/ ColAt(colIndex) = <<>>
  \/ ColAt(colIndex + 1) = <<>>
  \/ ~ColAt(colIndex)[1].resizable
  \/ ~ColAt(colIndex + 1)[1].resizable

\* mousedown at `clientX` with handleResizeStart(colIndex, e) as its handler
handleResizeStart(colIndex, clientX) ==
  /\ Gesture
  /\ colIndex \in 0..(Len(visibleCols) - 1)
  /\ IF ResizeStartRejected(colIndex)
     THEN /\ UNCHANGED tableVars
          /\ lastOp' = TableOp("resizeStart", colIndex, clientX, FALSE)
     ELSE LET leftCol == ColAt(colIndex)[1]
              rightCol == ColAt(colIndex + 1)[1]
          IN /\ columnWidths' =
                  [key \in DOMAIN columnWidths |->
                     IF \E i \in DOMAIN visibleCols : visibleCols[i].key = key
                     THEN Px(offsetWidth(key)) ELSE columnWidths[key]]
             /\ resizeDataRef' = << [leftColumn |-> leftCol.key,
                                     rightColumn |-> rightCol.key,
                                     startX |-> clientX,
                                     leftStartWidth |-> offsetWidth(leftCol.key),
                                     rightStartWidth |-> offsetWidth(rightCol.key),
                                     minWidth |-> MinWidth] >>
             /\ resizingColumn' = leftCol.key
             /\ listening' = TRUE
             /\ UNCHANGED visibleColumns
             /\ lastOp' = TableOp("resizeStart", colIndex, clientX, TRUE)
  /\ UNCHANGED <<filterVars, envVars, exportVars>>

\* widths clamped to the minimum one by one, the other side left as it was dragged
ResizedWidths_ClampsEachSide(resizeData, clientX) ==
  LET diff == clientX - resizeData.startX
      left0 == resizeData.leftStartWidth + diff
      right0 == resizeData.rightStartWidth - diff
  IN [newLeftWidth |-> IF left0 < resizeData.minWidth THEN resizeData.minWidth ELSE left0,
      newRightWidth |-> IF right0 < resizeData.minWidth THEN resizeData.minWidth ELSE right0]

\* the two widths handleResizeMove writes for a pointer at `clientX`
ResizedWidths(resizeData, clientX) ==
  LET diff == clientX - resizeData.startX
      totalWidth == resizeData.leftStartWidth + resizeData.rightStartWidth
      left0 == resizeData.leftStartWidth + diff
      right0 == resizeData.rightStartWidth - diff
      left1 == IF left0 < resizeData.minWidth THEN resizeData.minWidth ELSE left0
      right1 == IF left0 < resizeData.minWidth THEN totalWidth - resizeData.minWidth ELSE right0
      right2 == IF right1 < resizeData.minWidth THEN resizeData.minWidth ELSE right1
      left2 == IF right1 < resizeData.minWidth THEN totalWidth - resizeData.minWidth ELSE left1
  IN [newLeftWidth |-> left2, newRightWidth |-> right2]

\* mousemove on the document at `clientX`: handleResizeMove runs while the
\* listeners of a gesture are installed
handleResizeMove(clientX) ==
  /\ Gesture
  /\ IF listening /\ resizeDataRef # <<>> /\ clientX # resizeDataRef[1].startX
     THEN LET resizeData == resizeDataRef[1]
              new == ResizedWidths(resizeData, clientX)
          IN /\ columnWidths' =
                  handleColumnResize(
                    handleColumnResize(columnWidths, resizeData.leftColumn,
                                       Px(new.newLeftWidth)),
                    resizeData.rightColumn, Px(new.newRightWidth))
             /\ lastOp' = TableOp("resizeMove", 0, clientX, TRUE)
     ELSE /\ UNCHANGED columnWidths
          /\ lastOp' = TableOp("resizeMove", 0, clientX, FALSE)
  /\ UNCHANGED <<visibleColumns, resizeDataRef, resizingColumn, listening>>
  /\ UNCHANGED <<filterVars, envVars, exportVars>>

\* an end that takes the listeners off and keeps the recorded gesture
handleResizeEnd_KeepsRecord ==
  /\ Gesture
  /\ listening
  /\ UNCHANGED resizeDataRef
  /\ resizingColumn' = Null
  /\ listening' = FALSE
  /\ lastOp' = TableOp("resizeEnd", 0, 0, TRUE)
  /\ UNCHANGED <<visibleColumns, columnWidths>>
  /\ UNCHANGED <<filterVars, envVars, exportVars>>

\* mouseup on the document while the listeners of a gesture are installed
handleResizeEnd ==
  /\ Gesture
  /\ listening
  /\ resizeDataRef' = <<>>
  /\ resizingColumn' = Null
  /\ listening' = FALSE
  /\ lastOp' = TableOp("resizeEnd", 0, 0, TRUE)
  /\ UNCHANGED <<visibleColumns, columnWidths>>
  /\ UNCHANGED <<filterVars, envVars, exportVars>>

(***************************************************************************)
(* CSV export (FilterableTable.tsx 130-159) and the modal that offers it   *)
(* (FilterableTable.tsx 192-196, 215-245).                                 *)
(***************************************************************************)
Comma == ","
Quote == "\""
Newline == "\n"
\* the byte-order mark, "\ufeff"
Bom == "BOM"

\* str.includes(ch)
includes(str, ch) == \E i \in DOMAIN str : str[i] = ch

RECURSIVE replaceQuotes(_)
\* str.replace(/"/g, '""')
replaceQuotes(str) ==
  IF str = <<>> THEN <<>>
  ELSE (IF Head(str) = Quote THEN <<Quote, Quote>> ELSE <<Head(str)>>)
         \o replaceQuotes(Tail(str))

\* a cell that is wrapped in quotes without doubling the quotes inside it
exportCell_NoDoubling(value) ==
  IF IsNullish(value) THEN <<>>
  ELSE IF value.t = "boolean" THEN IF value.v THEN <<"Y", "e", "s">> ELSE <<"N", "o">>
  ELSE LET str == StringOf(value)
       IN IF includes(str, Comma) \/ includes(str, Quote) \/ includes(str, Newline)
          THEN <<Quote>> \o str \o <<Quote>>
          ELSE str

\* the text handleExport emits for the value of a cell
exportCell(value) ==
  IF IsNullish(value) THEN <<>>
  ELSE IF value.t = "boolean" THEN IF value.v THEN <<"Y", "e", "s">> ELSE <<"N", "o">>
  ELSE LET str == StringOf(value)
       IN IF includes(str, Comma) \/ includes(str, Quote) \/ includes(str, Newline)
          THEN <<Quote>> \o replaceQuotes(str) \o <<Quote>>
          ELSE str

RECURSIVE join(_, _)
\* Array.prototype.join: the texts of `parts` with `separator` between them
join(parts, separator) ==
  IF parts = <<>> THEN <<>>
  ELSE IF Len(parts) = 1 THEN parts[1]
  ELSE parts[1] \o <<separator>> \o join(Tail(parts), separator)

\* exportType === "visible" ? processedData : data
dataToExport == IF exportType = "visible" THEN processedData ELSE data

\* columns.filter((col) => visibleColumns.includes(col.key))
columnsToExport == SelectSeq(columns, LAMBDA col : col.key \in Range(visibleColumns))

\* const csvContent = [headers.join(","), ...rows.map((r) => r.join(","))].join("\n")
csvContent ==
  LET headers == [k \in DOMAIN columnsToExport |-> columnsToExport[k].label]
      rows == [i \in DOMAIN dataToExport |->
                 [k \in DOMAIN columnsToExport |->
                    exportCell(RowGet(dataToExport[i], columnsToExport[k].key))]]
  IN join(<<join(headers, Comma)>> \o [i \in DOMAIN rows |-> join(rows[i], Comma)], Newline)

\* what a control of the export modal observed
ExportOp(name) == [op |-> name, cancelled |-> FALSE]

\* the Export button of the toolbar, rendered while data.length > 0
openExportModal ==
  /\ Len(data) > 0
  /\ ~showExportModal
  /\ showExportModal' = TRUE
  /\ lastOp' = ExportOp("openExport")
  /\ UNCHANGED <<exportType, blob, gestures>>
  /\ UNCHANGED <<filterVars, envVars, tableVars>>

\* the modal's close and cancel buttons and its backdrop
closeExportModal ==
  /\ showExportModal
  /\ showExportModal' = FALSE
  /\ lastOp' = ExportOp("closeExport")
  /\ UNCHANGED <<exportType, blob, gestures>>
  /\ UNCHANGED <<filterVars, envVars, tableVars>>

\* the modal's radio buttons: setExportType("visible") and setExportType("all")
setExportType(type) ==
  /\ showExportModal
  /\ exportType' = type
  /\ lastOp' = ExportOp("exportType")
  /\ UNCHANGED <<showExportModal, blob, gestures>>
  /\ UNCHANGED <<filterVars, envVars, tableVars>>

\* the modal's Download button: the file is the byte-order mark and csvContent
handleExport ==
  /\ showExportModal
  /\ blob' = << <<Bom>> \o csvContent >>
  /\ showExportModal' = FALSE
  /\ lastOp' = ExportOp("export")
  /\ UNCHANGED <<exportType, gestures>>
  /\ UNCHANGED <<filterVars, envVars, tableVars>>

(***************************************************************************)
(* The editor and its table: the scheduler's specification.                *)
(***************************************************************************)
Init ==
  /\ mounted = TRUE
  /\ instance = 1
  /\ filterRoot = createDefaultFilter(1, 2)
  /\ nextId = 3
  /\ isAutoApply = TRUE
  /\ debouncedTimerRef = 0
  /\ filterValuesStore = RenderStore(<<>>, createDefaultFilter(1, 2))
  /\ localState = RenderLocal(<<>>, <<>>, createDefaultFilter(1, 2))
  /\ timers = {}
  /\ data = SampleData
  /\ filterEvaluator = AlwaysTrue
  /\ sortState \in {InitialSortState(<<>>),
                    InitialSortState(<<[column |-> ColumnKeys[1], direction |-> "asc"]>>)}
  /\ gestures = 0
  /\ lastOp = OpPlain("init")
  /\ sinceEdit = DebounceMs
  /\ pubsSinceEdit = 0
  /\ autoSinceEdit = FALSE
  /\ burstLen = 0
  /\ sortLog = <<>>
  \* every engine orders the two sample rows alike; the runs keep one
  /\ sortEngine = "timsort"
  /\ DefaultTable
  /\ onFilteredDataChange = processedData

Next ==
  \/ \E path \in GroupPaths(filterRoot) : handleToggleOperator(path)
  \/ \E path \in GroupPaths(filterRoot) : handleAddCondition(path)
  \/ \E path \in GroupPaths(filterRoot) : handleAddGroup(path)
  \/ \E path \in GroupPaths(filterRoot) :
       \E index \in DOMAIN NodeAt(filterRoot, path).children : handleRemoveChild(path, index)
  \/ \E id \in DOMAIN localState : \E value \in Columns : handleColumnChange(id, value)
  \/ \E id \in DOMAIN localState : \E value \in Regexes : handleRegexInput(id, value)
  \/ \E id \in DOMAIN localState : \E checked \in BOOLEAN : handleCaseSensitiveChange(id, checked)
  \/ toggleAutoApply
  \/ handleEnterKey
  \/ handleReset
  \/ \E t \in timers : timerFires(t)
  \/ tick
  \/ unmountFilter
  \/ mountFilter
  \/ \E column \in Columns : handleSortChange(column)

Spec == Init /\ [][Next]_vars

(***************************************************************************)
(* The sort state machine alone: every default sort a caller can supply,   *)
(* column activations and resets.                                          *)
(***************************************************************************)
\* the values of the optional defaultSort prop: absent, or a SortState
DefaultSorts ==
  {<<>>} \cup {<<d>> : d \in [column : Columns \cup {Null}, direction : {"asc", "desc", Null}]}

InitSort ==
  /\ mounted = TRUE
  /\ instance = 1
  /\ filterRoot = createDefaultFilter(1, 2)
  /\ nextId = 3
  /\ isAutoApply = TRUE
  /\ debouncedTimerRef = 0
  /\ filterValuesStore = RenderStore(<<>>, createDefaultFilter(1, 2))
  /\ localState = RenderLocal(<<>>, <<>>, createDefaultFilter(1, 2))
  /\ timers = {}
  /\ data = SampleData
  /\ filterEvaluator = AlwaysTrue
  /\ \E defaultSort \in DefaultSorts : sortState = InitialSortState(defaultSort)
  /\ gestures = 0
  /\ lastOp = OpPlain("init")
  /\ sinceEdit = DebounceMs
  /\ pubsSinceEdit = 0
  /\ autoSinceEdit = FALSE
  /\ burstLen = 0
  /\ sortLog = <<>>
  /\ sortEngine \in Engines
  /\ DefaultTable
  /\ onFilteredDataChange = processedData

NextSort ==
  \/ \E column \in Columns : handleSortChange(column)
  \/ handleReset

SpecSort == InitSort /\ [][NextSort]_vars

(***************************************************************************)
(* The derived view alone: tables whose rows differ in the cells of the    *)
(* first column, under column activations and resets.                      *)
(***************************************************************************)
\* the cells a row's first column may hold
CellValues ==
  {Num(2), Num(10), Bool(TRUE), Bool(FALSE), Str(<<"b">>), Str(<<"A">>),
   Str(<<"1", "a">>), NullValue, Undefined}

CmpRows == {[c1 |-> v, c2 |-> Num(1)] : v \in CellValues}

InitCmp ==
  /\ mounted = TRUE
  /\ instance = 1
  /\ filterRoot = createDefaultFilter(1, 2)
  /\ nextId = 3
  /\ isAutoApply = TRUE
  /\ debouncedTimerRef = 0
  /\ filterValuesStore = RenderStore(<<>>, createDefaultFilter(1, 2))
  /\ localState = RenderLocal(<<>>, <<>>, createDefaultFilter(1, 2))
  /\ timers = {}
  /\ \E n \in 1..MaxRows : data \in [1..n -> CmpRows]
  /\ filterEvaluator = AlwaysTrue
  /\ sortState = InitialSortState(<<>>)
  /\ gestures = 0
  /\ lastOp = OpPlain("init")
  /\ sinceEdit = DebounceMs
  /\ pubsSinceEdit = 0
  /\ autoSinceEdit = FALSE
  /\ burstLen = 0
  /\ sortLog = <<>>
  /\ sortEngine \in Engines
  /\ DefaultTable
  /\ onFilteredDataChange = processedData

NextCmp ==
  \/ \E column \in Columns : handleSortChange(column)
  \/ handleReset

SpecCmp == InitCmp /\ [][NextCmp]_vars

(***************************************************************************)
(* Sorting tables of distinct rows whose first column mixes numbers and    *)
(* strings, on every engine.                                               *)
(***************************************************************************)
MixedRows ==
  {[c1 |-> v, c2 |-> Num(k)] : v \in {Num(2), Num(10), Str(<<"1", "a">>)}, k \in 1..2}

\* the sequences of distinct rows, up to MaxSortRows of them
MixedTables ==
  UNION {{t \in [1..n -> MixedRows] : \A i, j \in 1..n : i # j => t[i] # t[j]} :
         n \in 1..MaxSortRows}

InitStable ==
  /\ mounted = TRUE
  /\ instance = 1
  /\ filterRoot = createDefaultFilter(1, 2)
  /\ nextId = 3
  /\ isAutoApply = TRUE
  /\ debouncedTimerRef = 0
  /\ filterValuesStore = RenderStore(<<>>, createDefaultFilter(1, 2))
  /\ localState = RenderLocal(<<>>, <<>>, createDefaultFilter(1, 2))
  /\ timers = {}
  /\ data \in MixedTables
  /\ filterEvaluator = AlwaysTrue
  /\ sortState = InitialSortState(<<>>)
  /\ gestures = 0
  /\ lastOp = OpPlain("init")
  /\ sinceEdit = DebounceMs
  /\ pubsSinceEdit = 0
  /\ autoSinceEdit = FALSE
  /\ burstLen = 0
  /\ sortLog = <<>>
  /\ sortEngine \in Engines
  /\ DefaultTable
  /\ onFilteredDataChange = processedData

NextStable ==
  \/ \E column \in Columns : handleSortChange(column)
  \/ handleReset

SpecStable == InitStable /\ [][NextStable]_vars

(***************************************************************************)
(* The table's columns alone: three declared columns, their visibility and *)
(* the resize gesture.                                                     *)
(***************************************************************************)
TableKeys == <<"c1", "c2", "c3">>

\* the pixel widths a layout gives a column, and the pointer positions of the runs
Widths == {40, 120}
PointerXs == {0, 100, 110, 200}

\* the values of the optional defaultVisibleColumns prop: absent, or a list of
\* declared keys in their order
DefaultVisibleColumns ==
  {<<>>} \cup {<<SelectSeq(TableKeys, LAMBDA k : k \in keep)>> : keep \in SUBSET Range(TableKeys)}

InitTable ==
  /\ mounted = TRUE
  /\ instance = 1
  /\ filterRoot = createDefaultFilter(1, 2)
  /\ nextId = 3
  /\ isAutoApply = TRUE
  /\ debouncedTimerRef = 0
  /\ filterValuesStore = RenderStore(<<>>, createDefaultFilter(1, 2))
  /\ localState = RenderLocal(<<>>, <<>>, createDefaultFilter(1, 2))
  /\ timers = {}
  /\ data = SampleData
  /\ filterEvaluator = AlwaysTrue
  /\ sortState = InitialSortState(<<>>)
  /\ gestures = 0
  /\ lastOp = OpPlain("init")
  /\ sinceEdit = DebounceMs
  /\ pubsSinceEdit = 0
  /\ autoSinceEdit = FALSE
  /\ burstLen = 0
  /\ sortLog = <<>>
  /\ removedIds = {}
  /\ sortEngine = "timsort"
  /\ allowResize \in BOOLEAN
  /\ \E flags \in [DOMAIN TableKeys -> BOOLEAN] :
       columns = [i \in DOMAIN TableKeys |->
                    ColumnDefinition(TableKeys[i], PlainLabel(TableKeys[i]), flags[i])]
  /\ layout \in [Range(TableKeys) -> Widths]
  /\ \E defaultVisibleColumns \in DefaultVisibleColumns :
       visibleColumns = InitialVisibleColumns(defaultVisibleColumns)
  /\ columnWidths = getInitialWidths
  /\ resizeDataRef = <<>>
  /\ resizingColumn = Null
  /\ listening = FALSE
  /\ showExportModal = FALSE
  /\ exportType = "visible"
  /\ blob = <<>>
  /\ onFilteredDataChange = processedData

NextTable ==
  \/ \E columnKey \in Range(allColumnKeys) : toggleColumn(columnKey)
  \/ selectAllColumns
  \/ selectNoColumns
  \/ \E colIndex \in 0..(Len(columns) - 1) : \E clientX \in PointerXs :
       handleResizeStart(colIndex, clientX)
  \/ \E clientX \in PointerXs : handleResizeMove(clientX)
  \/ handleResizeEnd

SpecTable == InitTable /\ [][NextTable]_vars

(***************************************************************************)
(* The evaluator alone: an editor in manual mode that holds a tree and its *)
(* values, a table of one row, and commits.                                *)
(***************************************************************************)
\* regex texts of the evaluator's runs; "(" does not compile
EvalRegexes == {<<>>, <<"a">>, <<"A">>, <<"(">>, <<"1">>, <<"^", "b">>}

\* the values a condition may hold in the store
ConditionValues == {Entry(column, regex, caseSensitive) :
                      column \in Columns, regex \in EvalRegexes, caseSensitive \in BOOLEAN}

\* the values of the conditions of the group trees: one that matches a text
\* holding "a" and one that never compiles
LeafValues == {Entry(ColumnKeys[1], <<"a">>, FALSE), Entry(ColumnKeys[1], <<"(">>, FALSE)}

RECURSIVE ShapesOfSize(_)
RECURSIVE ForestsOfSize(_)
\* the trees of exactly `size` nodes, without ids: a condition with its values,
\* or a group with its operator and its children
ShapesOfSize(size) ==
  IF size = 1
  THEN {[leaf |-> TRUE, value |-> v] : v \in LeafValues}
         \cup {[leaf |-> FALSE, operator |-> op, kids |-> <<>>] : op \in {"AND", "OR"}}
  ELSE {[leaf |-> FALSE, operator |-> op, kids |-> kids] :
          op \in {"AND", "OR"}, kids \in ForestsOfSize(size - 1)}

\* the sequences of trees of `size` nodes in all
ForestsOfSize(size) ==
  IF size = 0 THEN {<<>>}
  ELSE UNION {{<<first>> \o rest : first \in ShapesOfSize(k), rest \in ForestsOfSize(size - k)} :
              k \in 1..size}

RECURSIVE WithIds(_, _)
\* a shape as a tree whose node ids are unique: the i-th child of node `id` is 10 * id + i
WithIds(shape, id) ==
  IF shape.leaf
  THEN Condition(id, shape.value.column, shape.value.regex, shape.value.caseSensitive)
  ELSE Group(id, shape.operator,
             [i \in DOMAIN shape.kids |-> WithIds(shape.kids[i], 10 * id + i)])

\* complete trees: a root with one condition of any values, and the groups of
\* up to MaxNodes nodes
ConditionTrees ==
  {Group(1, "AND", <<Condition(11, v.column, v.regex, v.caseSensitive)>>) : v \in ConditionValues}
GroupTrees ==
  UNION {{WithIds(shape, 1) : shape \in {g \in ShapesOfSize(size) : ~g.leaf}} :
         size \in 1..MaxNodes}

RECURSIVE Skeleton(_)
\* the tree the editor holds for a complete tree: its conditions carry the
\* values they were created with, the typed values live in the store
Skeleton(node) ==
  IF node.type = "condition" THEN Condition(node.id, DefaultColumn, <<>>, FALSE)
  ELSE Group(node.id, node.operator, [i \in DOMAIN node.children |-> Skeleton(node.children[i])])

\* the store after the values of a complete tree were typed
StoreOf(tree) ==
  [id \in CondIds(tree) |->
     LET c == CHOOSE c \in CondNodes(tree) : c.id = id
     IN Entry(c.column, c.regex, c.caseSensitive)]

\* the cells of the first column of the one row; no row has the second column
EvalCells == {Str(<<"a", "b">>), Str(<<"B">>), Num(10), Bool(TRUE), NullValue, Undefined}
EvalRows == {[c1 |-> v] : v \in EvalCells}

InitEval ==
  /\ mounted = TRUE
  /\ instance = 1
  /\ \E tree \in ConditionTrees \cup GroupTrees :
       /\ filterRoot = Skeleton(tree)
       /\ filterValuesStore = StoreOf(tree)
       /\ localState = StoreOf(tree)
       /\ \E row \in EvalRows :
            /\ tree \in GroupTrees => row.c1.t = "string"
            /\ data = <<row>>
  /\ nextId = 3
  /\ isAutoApply = FALSE
  /\ debouncedTimerRef = 0
  /\ timers = {}
  /\ filterEvaluator = AlwaysTrue
  /\ sortState = InitialSortState(<<>>)
  /\ gestures = 0
  /\ lastOp = OpPlain("init")
  /\ sinceEdit = DebounceMs
  /\ pubsSinceEdit = 0
  /\ autoSinceEdit = FALSE
  /\ burstLen = 0
  /\ sortLog = <<>>
  /\ sortEngine = "timsort"
  /\ DefaultTable
  /\ onFilteredDataChange = processedData

NextEval ==
  \/ handleEnterKey
  \/ handleReset

SpecEval == InitEval /\ [][NextEval]_vars

(***************************************************************************)
(* The export alone: tables of two rows whose first column holds the cells *)
(* the serializer tells apart, an editor in manual mode holding one typed  *)
(* condition, column visibility, sort activations and the export modal.    *)
(***************************************************************************)
\* the cells of the first column
ExportCells ==
  {Str(<<"a">>), Str(<<>>), Str(<<Comma>>), Str(<<"a", Quote>>), Str(<<"a", Newline, "b">>),
   Str(<<"D", "o", "e", Comma, " ", Quote, "T", "h", "e", " ", "J", "u", "d", "g", "e", Quote>>),
   Num(10), Bool(TRUE), Bool(FALSE), NullValue, Undefined}

\* two rows; the second column puts the second row first when sorted asc
ExportTables ==
  {<<[c1 |-> x, c2 |-> Num(2)], [c1 |-> y, c2 |-> Num(1)]>> :
     x \in ExportCells, y \in {Str(<<"a">>), Str(<<"b", Quote>>)}}

\* the labels a caller gives the first column
ExportLabels == {<<"N", "a", "m", "e">>, <<"a", Comma, "b">>}

\* the tree and the values of the editor: one condition on the first column
ExportFilter == Group(1, "AND", <<Condition(11, ColumnKeys[1], <<"a">>, FALSE)>>)

InitExport ==
  /\ mounted = TRUE
  /\ instance = 1
  /\ filterRoot = Skeleton(ExportFilter)
  /\ filterValuesStore = StoreOf(ExportFilter)
  /\ localState = StoreOf(ExportFilter)
  /\ nextId = 3
  /\ isAutoApply = FALSE
  /\ debouncedTimerRef = 0
  /\ timers = {}
  /\ data \in ExportTables
  /\ filterEvaluator = AlwaysTrue
  /\ sortState = InitialSortState(<<>>)
  /\ gestures = 0
  /\ lastOp = OpPlain("init")
  /\ sinceEdit = DebounceMs
  /\ pubsSinceEdit = 0
  /\ autoSinceEdit = FALSE
  /\ burstLen = 0
  /\ sortLog = <<>>
  /\ removedIds = {}
  /\ sortEngine = "timsort"
  /\ allowResize = TRUE
  /\ \E label \in ExportLabels :
       columns = <<ColumnDefinition(ColumnKeys[1], label, TRUE),
                   ColumnDefinition(ColumnKeys[2], PlainLabel(ColumnKeys[2]), TRUE)>>
  /\ layout = [c \in Columns |-> 120]
  /\ \E defaultVisibleColumns \in {<<>>, <<<<ColumnKeys[1]>>>>, <<<<ColumnKeys[2]>>>>} :
       visibleColumns = InitialVisibleColumns(defaultVisibleColumns)
  /\ columnWidths = getInitialWidths
  /\ resizeDataRef = <<>>
  /\ resizingColumn = Null
  /\ listening = FALSE
  /\ showExportModal = FALSE
  /\ exportType = "visible"
  /\ blob = <<>>
  /\ onFilteredDataChange = processedData

NextExport ==
  \/ handleEnterKey
  \/ handleReset
  \/ handleSortChange(ColumnKeys[2])
  \/ \E columnKey \in Range(allColumnKeys) : toggleColumn(columnKey)
  \/ openExportModal
  \/ closeExportModal
  \/ \E type \in {"visible", "all"} : setExportType(type)
  \/ handleExport

SpecExport == InitExport /\ [][NextExport]_vars

(***************************************************************************)
(* Properties of the debounced apply scheduler.                            *)
(***************************************************************************)
NoSort == [column |-> Null, direction |-> Null]

\* the predicate an apply of the editor's present state publishes
CurrentEvaluator == createEvaluator(buildFilterWithValues(filterRoot, filterValuesStore))

\* rows on which two predicates are compared
ProbeRows == {[c1 |-> v, c2 |-> Num(1)] : v \in {Str(<<"a">>), Str(<<"b">>)}}

\* C1: in auto-apply mode, the predicate a fired debounce timer has published
\* is the evaluator of the tree as it stands after the last edit, with the
\* current value store entries: the two accept the same rows.
C1_TimerPublishesTreeAfterLastEdit ==
  (lastOp.op = "fire" /\ mounted /\ isAutoApply) =>
     \A row \in ProbeRows : Holds(filterEvaluator, row) = Holds(CurrentEvaluator, row)

\* C2: every edit cancels the pending timer before it starts a new one: at
\* most one timer is pending, a timer publishes only DebounceMs after the last
\* edit, at most once per burst, and after an edit made in auto mode the one
\* publish of the burst is either pending or done.
C2_DebounceOnePublishPerBurst ==
  /\ Cardinality(timers) <= 1
  /\ lastOp.op = "fire" => sinceEdit = DebounceMs
  /\ pubsSinceEdit <= 1
  /\ (mounted /\ autoSinceEdit) =>
       \/ pubsSinceEdit = 0 /\ Cardinality(timers) = 1
       \/ pubsSinceEdit = 1 /\ timers = {}

\* C2 witness: a burst of two edits in auto mode has produced its one publish
C2_Witness_BurstPublishedOnce ==
  /\ lastOp.op = "fire"
  /\ autoSinceEdit
  /\ burstLen = 2
  /\ pubsSinceEdit = 1

\* C3: while the scheduler is in manual mode the active predicate changes
\* only by an explicit commit or a reset, never by an edit or a timer.
C3_ManualChangesOnlyOnCommitOrReset ==
  [][(~isAutoApply /\ filterEvaluator' # filterEvaluator)
       => lastOp'.op \in {"enter", "reset"}]_vars

\* C4: in manual mode a commit cancels the pending timer and publishes the
\* evaluator of the current tree with the current value store entries; no
\* timer is left that could publish after it.
C4_CommitCancelsAndPublishesCurrent ==
  lastOp.op = "enter" =>
    /\ ~isAutoApply
    /\ timers = {}
    /\ filterEvaluator = CurrentEvaluator

\* C4 witness: a commit that cancelled a pending timer and published a
\* predicate other than the initial one
C4_Witness_CommitCancelledTimer ==
  /\ lastOp.op = "enter"
  /\ lastOp.cancelled
  /\ filterEvaluator # AlwaysTrue

\* C5: teardown cancels the outstanding timer: no callback of a torn-down
\* instance is ever pending, so none publishes after the teardown.
C5_NoTimerOutlivesItsInstance ==
  \A t \in timers : mounted /\ t.inst = instance

\* C5 witness: a teardown that cancelled a pending timer
C5_Witness_TeardownCancelledTimer ==
  /\ ~mounted
  /\ lastOp.op = "unmount"
  /\ lastOp.cancelled

\* C6: a reset, in either mode and with or without a pending timer, publishes
\* the always-true predicate at once and sets the sort state to {null, null}.
C6_ResetPublishesTrueAndClearsSort ==
  lastOp.op = "reset" =>
    /\ filterEvaluator = AlwaysTrue
    /\ \A row \in ProbeRows : Holds(filterEvaluator, row)
    /\ processedData = data
    /\ sortState = NoSort

\* C6 witness: a reset in manual mode while a timer is pending
C6_Witness_ResetManualTimerPending ==
  /\ lastOp.op = "reset"
  /\ ~isAutoApply
  /\ timers # {}

(***************************************************************************)
(* Properties of the sort state.                                           *)
(***************************************************************************)
\* `column` is the active sort column of state `st`, with a direction
SortedOn(st, column) == st.column = column /\ st.direction \in {"asc", "desc"}

\* C7: the sort cycle: an unsorted column becomes asc, the asc column desc,
\* the desc column {null, null}; three successive activations of a column
\* that was not sorted end in {null, null}.
C7_SortCycle ==
  sortLog # <<>> =>
    LET last == sortLog[Len(sortLog)]
    IN /\ ~SortedOn(last.before, last.column)
            => sortState = [column |-> last.column, direction |-> "asc"]
       /\ last.before = [column |-> last.column, direction |-> "asc"]
            => sortState = [column |-> last.column, direction |-> "desc"]
       /\ last.before = [column |-> last.column, direction |-> "desc"]
            => sortState = NoSort
       /\ ( /\ Len(sortLog) = 3
            /\ \A i \in 1..3 : sortLog[i].column = last.column
            /\ ~SortedOn(sortLog[1].before, last.column) )
            => sortState = NoSort

\* C7 witness: three successive activations of one column, unsorted before
C7_Witness_ThreeActivations ==
  /\ Len(sortLog) = 3
  /\ \A i \in 1..3 : sortLog[i].column = sortLog[1].column
  /\ ~SortedOn(sortLog[1].before, sortLog[1].column)
  /\ sortState = NoSort

\* C8: activating a column other than the active sort column yields
\* {newColumn, asc}, whatever the prior state.
C8_OtherColumnStartsAsc ==
  sortLog # <<>> =>
    LET last == sortLog[Len(sortLog)]
    IN last.before.column # last.column
         => sortState = [column |-> last.column, direction |-> "asc"]

\* C8 witness: a column activated while another column was sorted desc
C8_Witness_OtherColumnWasDesc ==
  /\ sortLog # <<>>
  /\ LET last == sortLog[Len(sortLog)]
     IN /\ last.before.column \in Columns \ {last.column}
        /\ last.before.direction = "desc"
        /\ sortState = [column |-> last.column, direction |-> "asc"]

\* C9: the sort state's column and direction are both null or both non-null.
C9_SortStateBothOrNeither ==
  (sortState.column = Null) <=> (sortState.direction = Null)

(***************************************************************************)
(* Properties of the sort comparator.                                      *)
(***************************************************************************)
\* the text of a cell in the comparator's string branch: empty for null and undefined
CoerceText(value) == IF IsNullish(value) THEN <<>> ELSE StringOf(value)

CaseInsensitiveOrder(x, y) == localeCompare(toLowerCase(x), toLowerCase(y))

ActiveSort(st) == st.column \in Columns /\ st.direction \in {"asc", "desc"}

\* C10: on two rows' cells at the sort column the comparator is the numeric
\* difference for two numbers, false before true for two booleans, and the
\* case-insensitive order of the texts otherwise (null and undefined as the
\* empty text); asc keeps its sign, desc negates it; without an active sort
\* the derived view is the filtered sequence, and with one a two-row view is
\* in the comparator's order.
C10_ComparatorBranchesAndDirection ==
  /\ \A i, j \in DOMAIN data : \A column \in Columns :
       LET x == RowGet(data[i], column)
           y == RowGet(data[j], column)
           asc == compareRows(data[i], data[j], column, "asc")
           desc == compareRows(data[i], data[j], column, "desc")
           numbers == x.t = "number" /\ y.t = "number"
           booleans == x.t = "boolean" /\ y.t = "boolean"
       IN /\ numbers => asc = x.v - y.v
          /\ booleans => /\ (x.v = y.v) => asc = 0
                         /\ (~x.v /\ y.v) => asc < 0
                         /\ (x.v /\ ~y.v) => asc > 0
          /\ (~numbers /\ ~booleans) => asc = CaseInsensitiveOrder(CoerceText(x), CoerceText(y))
          /\ desc = -asc
  /\ ~ActiveSort(sortState) => processedData = Filtered(data, filterEvaluator)
  /\ (ActiveSort(sortState) /\ Len(data) = 2) =>
       LET c == compareRows(data[1], data[2], sortState.column, "asc")
           swapped == IF sortState.direction = "asc" THEN c > 0 ELSE c < 0
       IN processedData = IF swapped THEN <<data[2], data[1]>> ELSE data

\* C10 witness: two rows, false then true, sorted desc on their column: the
\* view holds them in the opposite order
C10_Witness_DescendingBooleans ==
  /\ sortState = [column |-> "c1", direction |-> "desc"]
  /\ Len(data) = 2
  /\ data[1].c1 = Bool(FALSE)
  /\ data[2].c1 = Bool(TRUE)
  /\ processedData = <<data[2], data[1]>>

(***************************************************************************)
(* Properties of the sort as a whole.                                      *)
(***************************************************************************)
\* the place of a row in a sequence of distinct rows
PositionOf(rows, row) == CHOOSE k \in DOMAIN rows : rows[k] = row

\* C11: under an active sort, two rows of the filtered sequence that compare
\* equal on the sort column stand in the view in the order they had in the
\* filtered sequence, and sorting the view again by the same column and
\* direction leaves it as it is.
C11_SortStableAndIdempotent ==
  ActiveSort(sortState) =>
    LET filtered == Filtered(data, filterEvaluator)
        view == processedData
    IN /\ \A i, j \in DOMAIN filtered :
            (i < j /\ compareRows(filtered[i], filtered[j],
                                  sortState.column, sortState.direction) = 0)
              => PositionOf(view, filtered[i]) < PositionOf(view, filtered[j])
       /\ sortData(view, sortState) = view

(***************************************************************************)
(* Properties of the resize gesture and of column visibility.              *)
(***************************************************************************)
\* the last handler was a pointer movement that wrote the two widths
MoveWrote == lastOp.op = "resizeMove" /\ lastOp.accepted

\* C12: the two widths a pointer movement of a gesture has written sum to
\* leftStartWidth + rightStartWidth, clamped or not.
C12_ResizeConservesPairWidth ==
  MoveWrote =>
    LET resizeData == resizeDataRef[1]
        left == columnWidths[resizeData.leftColumn]
        right == columnWidths[resizeData.rightColumn]
    IN /\ left.unit = "px" /\ right.unit = "px"
       /\ left.n + right.n = resizeData.leftStartWidth + resizeData.rightStartWidth

\* C12 witness: a movement that was clamped, the left column at the minimum
\* and the right column holding the rest of the pair's width
C12_Witness_ClampedMove ==
  /\ MoveWrote
  /\ LET resizeData == resizeDataRef[1]
     IN /\ resizeData.leftStartWidth + (lastOp.clientX - resizeData.startX) < MinWidth
        /\ columnWidths[resizeData.leftColumn] = Px(MinWidth)
        /\ columnWidths[resizeData.rightColumn].n > resizeData.rightStartWidth

\* C13: after a pointer movement of a gesture neither of the two columns is
\* narrower than the minimum of 50.
C13_ResizeKeepsMinimumWidth ==
  MoveWrote =>
    /\ columnWidths[resizeDataRef[1].leftColumn].n >= MinWidth
    /\ columnWidths[resizeDataRef[1].rightColumn].n >= MinWidth

\* C14: a gesture start on a header is a no-op when resizing is disabled,
\* when the left or the right column is not resizable, or when the header has
\* no right neighbour among the visible columns: widths and gesture state stay
\* as they were; and a pointer movement with no gesture recorded writes no width.
C14_RejectedStartIsNoOp ==
  [][ /\ (/\ lastOp'.op = "resizeStart"
          /\ LET left == lastOp'.colIndex + 1
                 right == lastOp'.colIndex + 2
             IN \/ ~allowResize
                \/ right \notin DOMAIN visibleCols
                \/ ~visibleCols[left].resizable
                \/ ~visibleCols[right].resizable)
         => /\ columnWidths' = columnWidths
            /\ resizeDataRef' = resizeDataRef
            /\ resizingColumn' = resizingColumn
            /\ listening' = listening
            /\ ~canShowResizer(lastOp'.colIndex)
      /\ (lastOp'.op = "resizeMove" /\ resizeDataRef = <<>>)
         => columnWidths' = columnWidths ]_vars

\* C14 witness: with resizing enabled, a start on a header that has a right
\* neighbour was rejected for a column that is not resizable and left the
\* widths and the gesture state as constructed
C14_Witness_RejectedForNonResizableColumn ==
  /\ lastOp.op = "resizeStart" /\ ~lastOp.accepted
  /\ allowResize
  /\ ColAt(lastOp.colIndex + 1) # <<>>
  /\ resizeDataRef = <<>> /\ ~listening /\ resizingColumn = Null
  /\ columnWidths = getInitialWidths

\* C15: a gesture start never replaces the recorded state of a gesture that
\* has not ended.
C15_StartNeverOverwritesActiveGesture ==
  [][(resizeDataRef # <<>> /\ lastOp'.op = "resizeStart")
       => resizeDataRef' = resizeDataRef]_vars

\* C16: a table with at least one declared column has at least one visible column.
C16_VisibleColumnsNeverEmpty ==
  Len(columns) >= 1 => visibleColumns # <<>>

(***************************************************************************)
(* Properties of the evaluator.                                            *)
(***************************************************************************)
\* the published predicate is that of a committed tree
Committed == lastOp.op = "enter" /\ filterEvaluator.kind = "tree"

\* `pat` occurs in `txt`: txt = u \o pat \o v for some u and v, with u empty
\* when the occurrence must be at the start
Occurs(pat, txt, atStart) ==
  \E i \in 0..Len(txt) : \E j \in i..Len(txt) :
    /\ atStart => i = 0
    /\ SubSeq(txt, i + 1, j) = pat

\* what a condition is to return on a row
ConditionMatches(c, row) ==
  LET text == IF c.column \in DOMAIN row /\ ~IsNullish(row[c.column])
              THEN StringOf(row[c.column]) ELSE <<>>
      anchored == c.regex[1] = "^"
      pat == IF anchored THEN Tail(c.regex) ELSE c.regex
  IN IF c.regex = <<>> THEN TRUE
     ELSE IF \E i \in DOMAIN c.regex : c.regex[i] = "(" THEN FALSE
     ELSE IF c.caseSensitive THEN Occurs(pat, text, anchored)
     ELSE Occurs(toLowerCase(pat), toLowerCase(text), anchored)

\* C17: every condition of a committed tree evaluates, on every row, to true
\* when its regex is empty, to false when its regex does not compile, and
\* otherwise to whether the regex matches the text of the row's value at its
\* column (the empty text for null, undefined and a missing column), ignoring
\* case unless the condition is case sensitive; the view of a tree of one
\* condition holds exactly the rows the condition matches.
C17_ConditionEvaluation ==
  Committed =>
    /\ \A c \in CondNodes(filterEvaluator.root) : \A i \in DOMAIN data :
         evaluateNode(c, data[i]) = ConditionMatches(c, data[i])
    /\ (Len(filterEvaluator.root.children) = 1
        /\ filterEvaluator.root.children[1].type = "condition")
       => processedData =
            SelectSeq(data, LAMBDA row : ConditionMatches(filterEvaluator.root.children[1], row))

\* C17 witness: a committed condition whose regex does not compile has
\* emptied the view
C17_Witness_MalformedRegexFailsClosed ==
  /\ Committed
  /\ Len(filterEvaluator.root.children) = 1
  /\ filterEvaluator.root.children[1].type = "condition"
  /\ filterEvaluator.root.children[1].regex = <<"(">>
  /\ data # <<>>
  /\ processedData = <<>>

\* the groups of a tree
GroupNodes(root) == {NodeAt(root, path) : path \in GroupPaths(root)}

\* the number of children of a group that evaluate to true on a row
TrueChildren(group, row) ==
  Cardinality({i \in DOMAIN group.children : evaluateNode(group.children[i], row)})

\* C18: every group of a committed tree, at every depth, evaluates to true
\* when it has no children, an AND group to whether all of its children are
\* true and an OR group to whether at least one is; the predicate is the
\* value of the root, and the view holds exactly the rows on which it is true.
C18_GroupTruthTables ==
  Committed =>
    /\ \A g \in GroupNodes(filterEvaluator.root) : \A i \in DOMAIN data :
         evaluateNode(g, data[i]) =
           (IF Len(g.children) = 0 THEN TRUE
            ELSE IF g.operator = "AND" THEN TrueChildren(g, data[i]) = Len(g.children)
            ELSE TrueChildren(g, data[i]) >= 1)
    /\ \A i \in DOMAIN data :
         Holds(filterEvaluator, data[i]) = evaluateNode(filterEvaluator.root, data[i])
    /\ processedData = SelectSeq(data, LAMBDA row : evaluateNode(filterEvaluator.root, row))

\* C18 witness: a committed AND root of a condition that matches the row and
\* of an OR group without children keeps the row
C18_Witness_EmptyOrGroupUnderAnd ==
  /\ Committed
  /\ filterEvaluator.root.operator = "AND"
  /\ Len(filterEvaluator.root.children) = 2
  /\ \E i \in 1..2 :
       /\ filterEvaluator.root.children[i].type = "group"
       /\ filterEvaluator.root.children[i].operator = "OR"
       /\ filterEvaluator.root.children[i].children = <<>>
       /\ filterEvaluator.root.children[3 - i].type = "condition"
       /\ filterEvaluator.root.children[3 - i].regex = <<"a">>
  /\ data # <<>>
  /\ processedData = data

(***************************************************************************)
(* Properties of the value store.                                          *)
(***************************************************************************)
\* C19: the value store holds no entry for a condition that handleRemoveChild
\* has removed from the tree, whatever edits, timer-driven applies and commits
\* followed the removal.
C19_NoOrphanedStoreEntries ==
  \A id \in removedIds : id \notin DOMAIN filterValuesStore

(***************************************************************************)
(* Properties of the derived view.                                         *)
(***************************************************************************)
\* the raw rows the active predicate accepts, in their order
AcceptedRows == SelectSeq(data, LAMBDA row : Holds(filterEvaluator, row))

\* the rows of a sequence, with their multiplicities
RowBag(rows) == [row \in Range(rows) |-> Cardinality({i \in DOMAIN rows : rows[i] = row})]

\* C20: the derived view holds exactly the raw rows the active predicate
\* accepts; without an active sort they stand in their raw order, with one
\* each row stands before the rows the comparator puts after it; and the rows
\* the callback was last invoked with are the derived view.
C20_DerivedViewAndCallback ==
  /\ RowBag(processedData) = RowBag(AcceptedRows)
  /\ ~ActiveSort(sortState) => processedData = AcceptedRows
  /\ ActiveSort(sortState) =>
       \A i, j \in DOMAIN processedData :
         i < j => compareRows(processedData[i], processedData[j],
                              sortState.column, sortState.direction) <= 0
  /\ onFilteredDataChange = processedData

\* C20 witness: a fired timer has published a predicate that rejects one of
\* the two raw rows, and the callback has received the one row left
C20_Witness_CallbackGotFilteredRows ==
  /\ lastOp.op = "fire"
  /\ Len(data) = 2
  /\ Len(onFilteredDataChange) = 1
  /\ Holds(filterEvaluator, onFilteredDataChange[1])

(***************************************************************************)
(* Properties of the CSV export.                                           *)
(***************************************************************************)
RECURSIVE ReadCsv(_, _, _, _, _)
\* a reader of CSV text: the records of `text` from position i on, each a
\* sequence of cells; a cell that opens with a quote runs to the next quote
\* that is not doubled, a doubled quote inside it stands for one quote; a comma
\* outside quotes ends a cell and a newline outside quotes ends a record
ReadCsv(text, i, inQuotes, cell, record) ==
  IF i > Len(text) THEN <<Append(record, cell)>>
  ELSE IF inQuotes
       THEN IF text[i] = Quote
            THEN IF i < Len(text) /\ text[i + 1] = Quote
                 THEN ReadCsv(text, i + 2, TRUE, Append(cell, Quote), record)
                 ELSE ReadCsv(text, i + 1, FALSE, cell, record)
            ELSE ReadCsv(text, i + 1, TRUE, Append(cell, text[i]), record)
       ELSE IF text[i] = Quote /\ cell = <<>> THEN ReadCsv(text, i + 1, TRUE, cell, record)
       ELSE IF text[i] = Comma THEN ReadCsv(text, i + 1, FALSE, <<>>, Append(record, cell))
       ELSE IF text[i] = Newline
            THEN <<Append(record, cell)>> \o ReadCsv(text, i + 1, FALSE, <<>>, <<>>)
       ELSE ReadCsv(text, i + 1, FALSE, Append(cell, text[i]), record)

\* the records of the file last downloaded, its byte-order mark taken off
Exported == ReadCsv(Tail(blob[1]), 1, FALSE, <<>>, <<>>)

\* the last handler was a download
Downloaded == lastOp.op = "export" /\ blob # <<>>

\* the text of a cell: empty for null and undefined, Yes or No for a boolean
CellText(value) ==
  IF IsNullish(value) THEN <<>>
  ELSE IF value.t = "boolean" THEN IF value.v THEN <<"Y", "e", "s">> ELSE <<"N", "o">>
  ELSE StringOf(value)

\* the cell has a comma, a double quote or a newline in its text
NeedsQuotes(value) == \E i \in DOMAIN CellText(value) : CellText(value)[i] \in {Comma, Quote, Newline}

\* the form of a cell in a line: wrapped and with its quotes doubled when it
\* needs quotes, its text otherwise
QuotedForm(value) ==
  LET text == CellText(value)
      doubled(k) == IF text[k] = Quote THEN <<Quote, Quote>> ELSE <<text[k]>>
      Doubled[k \in 0..Len(text)] == IF k = 0 THEN <<>> ELSE Doubled[k - 1] \o doubled(k)
  IN IF NeedsQuotes(value) THEN <<Quote>> \o Doubled[Len(text)] \o <<Quote>> ELSE text

\* the rows and the columns a download of the present state holds
ScopeRows == IF exportType = "all" THEN data ELSE processedData
ScopeKeys == SelectSeq(allColumnKeys, LAMBDA k : k \in Range(visibleColumns))

\* C21: in a downloaded file every data cell stands in its line in its quoted
\* form (wrapped in double quotes with every inner quote doubled when its text
\* has a comma, a quote or a newline, unchanged otherwise; the empty text for
\* null and undefined, Yes and No for booleans), and reading the file gives
\* back, record by record, the text of every cell.
C21_CsvQuotingRoundTrips ==
  Downloaded =>
    LET lines == [i \in DOMAIN ScopeRows |->
                    join([k \in DOMAIN ScopeKeys |->
                            QuotedForm(RowGet(ScopeRows[i], ScopeKeys[k]))], Comma)]
        tail == join(lines, Newline)
        file == blob[1]
    IN /\ Len(file) >= Len(tail)
       /\ SubSeq(file, Len(file) - Len(tail) + 1, Len(file)) = tail
       /\ Len(Exported) = Len(ScopeRows) + 1
       /\ \A i \in DOMAIN ScopeRows :
            Exported[i + 1] = [k \in DOMAIN ScopeKeys |->
                                 CellText(RowGet(ScopeRows[i], ScopeKeys[k]))]

\* C21 witness: a download whose first data record is the cell Doe, "The Judge",
\* read back from a line that holds it wrapped and with its quotes doubled
C21_Witness_QuotedCellReadBack ==
  /\ Downloaded
  /\ Len(Exported) >= 2
  /\ Exported[2][1] =
       <<"D", "o", "e", Comma, " ", Quote, "T", "h", "e", " ", "J", "u", "d", "g", "e", Quote>>
  /\ \E i \in DOMAIN blob[1] :
       SubSeq(blob[1], i, i + 5) = <<Quote, "D", "o", "e", Comma, " ">>
  /\ \E i \in DOMAIN blob[1] :
       SubSeq(blob[1], i, i + 3) = <<"e", Quote, Quote, Quote>>

\* the label of the declared column with a key
LabelOf(key) == (CHOOSE i \in DOMAIN columns : columns[i].key = key)
ColumnLabel(key) == columns[LabelOf(key)].label

\* C22: a downloaded file holds one record per row of the scope, in the
\* scope's order (scope "all": the raw rows, unfiltered and in raw order;
\* scope "visible": the derived view), after one header record; the header
\* record holds the labels of the visible columns in declared order, and every
\* record holds one cell per visible column: the text of the row's value at
\* that column.
C22_ExportScopeAndColumns ==
  Downloaded =>
    /\ Len(Exported) = 1 + (IF exportType = "all" THEN Len(data) ELSE Len(processedData))
    /\ Exported[1] = [k \in DOMAIN ScopeKeys |-> ColumnLabel(ScopeKeys[k])]
    /\ \A r \in DOMAIN Exported : Len(Exported[r]) = Len(ScopeKeys)
    /\ \A i \in DOMAIN ScopeRows :
         \A k \in DOMAIN ScopeKeys :
           Exported[i + 1][k] = CellText(RowGet(ScopeRows[i], ScopeKeys[k]))

(***************************************************************************)
(* Properties of the widths during a resize gesture.                       *)
(***************************************************************************)
\* the keys of the visible columns, and the two columns of a recorded gesture
VisibleKeys == {visibleCols[i].key : i \in DOMAIN visibleCols}
PairOf(ref) == {ref[1].leftColumn, ref[1].rightColumn}

\* C23: an accepted gesture start writes into the width map, for every visible
\* column, the pixel width the column is rendered at, and leaves the entries
\* of the hidden columns; a pointer movement of a gesture changes no entry
\* other than those of the two columns of the gesture; and over every step of
\* a gesture that is not a start, whatever the handler, every entry outside
\* the gesture's pair stays as it is.
C23_StartLocksAllMovesChangePair ==
  [][ /\ (lastOp'.op = "resizeStart" /\ lastOp'.accepted)
         => \A key \in DOMAIN columnWidths :
              columnWidths'[key] =
                IF key \in VisibleKeys THEN Px(offsetWidth(key)) ELSE columnWidths[key]
      /\ (lastOp'.op = "resizeMove" /\ resizeDataRef # <<>>)
         => \A key \in DOMAIN columnWidths \ PairOf(resizeDataRef) :
              columnWidths'[key] = columnWidths[key]
      /\ (/\ resizeDataRef # <<>> /\ resizeDataRef' # <<>>
          /\ ~(lastOp'.op = "resizeStart" /\ lastOp'.accepted))
         => \A key \in DOMAIN columnWidths \ PairOf(resizeDataRef') :
              columnWidths'[key] = columnWidths[key] ]_vars

\* C23 witness: three visible columns, a gesture on two of them has moved
\* the pair's widths, and the third column holds the pixel width it was
\* locked at, the width the layout rendered it at
C23_Witness_ThirdColumnStaysLocked ==
  /\ MoveWrote
  /\ Cardinality(VisibleKeys) = 3
  /\ columnWidths[resizeDataRef[1].leftColumn].n # resizeDataRef[1].leftStartWidth
  /\ \E key \in VisibleKeys \ PairOf(resizeDataRef) : columnWidths[key] = Px(layout[key])

\* C24: a gesture end leaves no recorded gesture, a null resizing-column
\* marker and no listener; and a pointer movement that meets no recorded
\* gesture (after an end and before the next accepted start) leaves the width
\* map and the gesture state as they are.
C24_NoResizeStateBetweenGestures ==
  [][ /\ lastOp'.op = "resizeEnd"
         => /\ resizeDataRef' = <<>>
            /\ resizingColumn' = Null
            /\ ~listening'
      /\ (lastOp'.op = "resizeMove" /\ resizeDataRef = <<>>)
         => /\ ~lastOp'.accepted
            /\ columnWidths' = columnWidths
            /\ resizeDataRef' = <<>>
            /\ resizingColumn' = Null
            /\ ~listening' ]_vars

\* C24 witness: a gesture was started and ended (the widths are the locked
\* pixel widths), and a pointer movement has come after the end and written
\* nothing
C24_Witness_MoveAfterEnd ==
  /\ lastOp.op = "resizeMove" /\ ~lastOp.accepted
  /\ gestures = 3
  /\ resizeDataRef = <<>> /\ resizingColumn = Null /\ ~listening
  /\ \E key \in VisibleKeys : columnWidths[key].unit = "px"
  /\ \A key \in VisibleKeys : columnWidths[key] = Px(layout[key])

(***************************************************************************)
(* Properties of the tree operations.                                      *)
(***************************************************************************)
\* the values a condition node carries
NodeValues(c) == Entry(c.column, c.regex, c.caseSensitive)

\* C25: a structural operation (add-condition, add-group, toggle-operator,
\* remove-child, each with the replace-child chain up to the root) leaves the
\* store entry of every condition that is in the tree before and after it as
\* it was; and the conditions of a predicate a timer or a commit publishes
\* carry the column, regex and caseSensitive the store held for them, not the
\* values of the tree's nodes.
C25_RebuildsKeepTypedInput ==
  [][ /\ lastOp'.op = "structure"
         => \A id \in CondIds(filterRoot) \cap CondIds(filterRoot') :
              /\ id \in DOMAIN filterValuesStore
              /\ id \in DOMAIN filterValuesStore'
              /\ filterValuesStore'[id] = filterValuesStore[id]
      /\ lastOp'.op \in {"fire", "enter"}
         => \A c \in CondNodes(filterEvaluator'.root) :
              c.id \in DOMAIN filterValuesStore => NodeValues(c) = filterValuesStore[c.id] ]_vars

\* C25 witness: a regex was typed, then a child was added (the tree holds two
\* children, the timer of the add had captured the tree of one), and the
\* timer has published the typed regex for a condition whose tree node holds
\* the empty one
C25_Witness_TypedRegexSurvivesAdd ==
  /\ lastOp.op = "fire"
  /\ mounted
  /\ Len(filterRoot.children) = 2
  /\ Len(filterEvaluator.root.children) = 1
  /\ filterEvaluator.root.children[1].regex = <<"a">>
  /\ filterRoot.children[1].id = filterEvaluator.root.children[1].id
  /\ filterRoot.children[1].regex = <<>>
  /\ filterValuesStore[filterRoot.children[1].id].regex = <<"a">>

RECURSIVE ReplaceAt(_, _, _)
\* the tree `root` with `node` in the place of the node at `path`
ReplaceAt(root, path, node) ==
  IF path = <<>> THEN node
  ELSE [root EXCEPT !.children[Head(path)] = ReplaceAt(@, Tail(path), node)]

RECURSIVE NodeIds(_)
\* the ids of the nodes of a tree
NodeIds(node) ==
  IF node.type = "condition" THEN {node.id}
  ELSE {node.id} \cup UNION {NodeIds(node.children[i]) : i \in DOMAIN node.children}

\* an empty, case-insensitive condition on the first column key
IsNewCondition(node) ==
  /\ node.type = "condition"
  /\ node.column = columns[1].key
  /\ node.regex = <<>>
  /\ node.caseSensitive = FALSE

\* C26: a tree operation leaves the group it was given as it was, and the
\* new tree differs from the old one only at that group: toggle-operator only
\* in the operator, AND to OR and OR to AND, a second toggle giving the first
\* group back; add-condition and add-group only by one child appended at the
\* end, an empty case-insensitive condition on the first column key, or an AND
\* group holding one such condition, with ids the tree did not have;
\* remove-child only by the absence of the child at the index, the other
\* children in their order.
C26_TreeOperationsFrame ==
  [][ (gestures' # gestures /\ lastOp'.op = "structure") =>
        LET before == NodeAt(filterRoot, lastOp'.path)
            after == NodeAt(filterRoot', lastOp'.path)
            n == Len(before.children)
        IN /\ lastOp'.group = before
           /\ filterRoot' = ReplaceAt(filterRoot, lastOp'.path, after)
           /\ after.type = "group" /\ after.id = before.id
           /\ lastOp'.kind = "toggleOperator"
              => /\ after.children = before.children
                 /\ before.operator = "AND" => after.operator = "OR"
                 /\ before.operator = "OR" => after.operator = "AND"
                 /\ ToggledGroup(after) = before
           /\ lastOp'.kind \in {"addCondition", "addGroup"}
              => /\ after.operator = before.operator
                 /\ Len(after.children) = n + 1
                 /\ SubSeq(after.children, 1, n) = before.children
                 /\ NodeIds(after.children[n + 1]) \cap NodeIds(filterRoot) = {}
           /\ lastOp'.kind = "addCondition" => IsNewCondition(after.children[n + 1])
           /\ lastOp'.kind = "addGroup"
              => /\ after.children[n + 1].type = "group"
                 /\ after.children[n + 1].operator = "AND"
                 /\ Len(after.children[n + 1].children) = 1
                 /\ IsNewCondition(after.children[n + 1].children[1])
                 /\ after.children[n + 1].children[1].id # after.children[n + 1].id
           /\ lastOp'.kind = "removeChild"
              => /\ after.operator = before.operator
                 /\ Len(after.children) = n - 1
                 /\ \A k \in 1..(n - 1) :
                      after.children[k] =
                        before.children[IF k < lastOp'.index THEN k ELSE k + 1] ]_vars

\* C26 witness: the first of two children was removed: the group the handler
\* was given still holds both, the new tree holds the second one
C26_Witness_RemovedFirstOfTwo ==
  /\ lastOp.op = "structure"
  /\ lastOp.kind = "removeChild"
  /\ lastOp.index = 1
  /\ Len(lastOp.group.children) = 2
  /\ NodeAt(filterRoot, lastOp.path).children = <<lastOp.group.children[2]>>

(***************************************************************************)
(* Properties of the active predicate after a reset and over remounts.     *)
(***************************************************************************)
\* C27: after a reset, while no edit, commit or other gesture follows (time
\* passes and timers fire), the active predicate accepts every row, as the
\* always-true predicate does: a timer that was pending at the reset does not
\* replace it.
C27_ResetOutlivesPendingTimer ==
  [][ (lastOp.op = "reset" /\ gestures' = gestures)
        => \A row \in ProbeRows : Holds(filterEvaluator', row) ]_vars

\* C28: when a new editor instance has been created with the default tree
\* (the raw rows went from empty to non-empty), the active predicate accepts
\* every row, as the always-true predicate does, and the view holds all raw
\* rows: it is not the predicate of the torn-down instance's tree.
C28_RemountStartsAlwaysTrue ==
  (lastOp.op = "mount" /\ mounted) =>
    /\ filterRoot.operator = "AND"
    /\ Len(filterRoot.children) = 1
    /\ filterRoot.children[1].type = "condition"
    /\ filterRoot.children[1].regex = <<>>
    /\ \A row \in ProbeRows : Holds(filterEvaluator, row)
    /\ Filtered(data, filterEvaluator) = data

(***************************************************************************)
(* Properties of the raw rows.                                             *)
(***************************************************************************)
\* the texts of the cells of `rows` at the visible columns, row by row
TextsOf(rows) ==
  [i \in DOMAIN rows |-> [k \in DOMAIN ScopeKeys |-> CellText(RowGet(rows[i], ScopeKeys[k]))]]

\* C29: no commit, sort activation, reset or other step of the table changes
\* the raw rows or their order, and a download with scope "all" holds, after
\* its header, the raw rows in their order, whatever predicate and sort state
\* are active.
C29_RawRowsNeverModified ==
  [][ /\ data' = data
      /\ (lastOp'.op = "export" /\ exportType = "all" /\ showExportModal)
         => LET records == ReadCsv(Tail(blob'[1]), 1, FALSE, <<>>, <<>>)
            IN SubSeq(records, 2, Len(records)) = TextsOf(data) ]_vars

\* C29 witness: with a committed predicate that rejects a raw row and a sort
\* that puts the second raw row first, a download with scope "all" holds both
\* raw rows in raw order
C29_Witness_AllScopeIgnoresHistory ==
  /\ Downloaded
  /\ exportType = "all"
  /\ filterEvaluator.kind = "tree"
  /\ sortState = [column |-> ColumnKeys[2], direction |-> "asc"]
  /\ Len(processedData) < Len(data)
  /\ ColumnKeys[2] \in Range(visibleColumns)
  /\ Len(Exported) = 3
  /\ Last(Exported[2]) = <<"2">>
  /\ Last(Exported[3]) = <<"1">>
=============================================================================
